---- MODULE Spec2Model ----
(***************************************************************************)
(* Model of the foundry_agents runtime: the Key Vault secret cache         *)
(* (utils/akv.py), the Settings snapshot (configs/settings.py), the tool   *)
(* registry (configs/tools_registry.py), the prompt table                  *)
(* (prompts/agent_prompts.py) and the queue-triggered agent-creation       *)
(* handlers (function_app.py, src/function_app.py).                        *)
(*                                                                         *)
(* A Python str holding a secret is modelled as a tuple <<name, rev>>; the *)
(* empty str is the empty tuple.  A Python dict is a function whose DOMAIN *)
(* is its key set; a list is a sequence.  An operation that raises is a    *)
(* result record whose field "raised" names the exception ("" = returned). *)
(***************************************************************************)
EXTENDS Integers, Sequences, FiniteSets, TLC

VARIABLES
    vault,           \* the Key Vault: revision of the stored values, outage
    environ,         \* os.environ: the bootstrap variables
    secret_cache,    \* akv._secret_cache
    settings_cache,  \* lru_cache of get_settings: <<>> or <<instance>>
    allocated,       \* number of Settings objects constructed so far
    project_client,  \* lru_cache of get_project_client: <<>> or <<client>>
    response_queue,  \* the messages sent to the response queue
    threads,         \* concurrent callers: the call each one is in
    returned,        \* history: what the concurrent calls returned
    script,          \* the deployment script being run: position, arguments
    cloud,           \* the deployed resources the scripts act on
    clients,         \* SemanticKernelAgentClient.send_query calls in progress
    inbox,           \* sk-agent-response-queue as the polling clients see it
    heap,            \* the dict and list objects of the process, by identity
    results,         \* history: what resolve_tools returned, call by call
    first_settings,  \* history: <<instance>> first returned by get_settings
    epoch,           \* history: get_secret traffic since the last clear_cache
    last             \* the last call made on the process and its outcome

vars == <<vault, environ, secret_cache, settings_cache, allocated,
          project_client, response_queue, threads, returned, script, cloud,
          clients, inbox, heap, results, first_settings, epoch, last>>

----------------------------------------------------------------------------
(* configs/constants.py *)

KV_FOUNDRY_PROJECT_ENDPOINT == "foundry-project-endpoint"
KV_AI_SEARCH_CONNECTION_ID == "ai-search-connection-id"
KV_AI_SEARCH_INDEX_NAME == "ai-search-index-name"
KV_MCP_CONNECTION_ID == "mcp-connection-id"
AGENT_QUEUE_NAME == "agent-jobs"
DEFAULT_AGENT_MODEL == "gpt-4.1"
DEFAULT_AGENT_NAME == "default-agent"

\* The secret names Settings reads, in field order.
SecretNames ==
    {KV_FOUNDRY_PROJECT_ENDPOINT, KV_AI_SEARCH_CONNECTION_ID,
     KV_AI_SEARCH_INDEX_NAME, KV_MCP_CONNECTION_ID}

----------------------------------------------------------------------------
(* Bounds and input domains *)

\* Settings objects the process may construct (one, unless caching is lost).
MaxObjects == 3
\* Cap of the per-name remote lookup counter.
MaxQueries == 3
\* Longest list of tool names passed to resolve_tools.
MaxLen == 3
\* Messages the response queue holds before the model stops sending.
MaxResponses == 1
\* Concurrent callers in the process, and the calls each of them makes.
MaxThreads == 2
MaxCalls == 2
\* Clients polling the response queue, and the messages of other origin the
\* queue may hold.
MaxClients == 2
MaxForeign == 1
\* The changes callers make to the results they were handed.
MaxMutations == 1

\* Revisions of the values held by the vault (a rotation moves v0 -> v1).
Revs == {"v0", "v1"}
\* What the vault cannot serve: nothing, one secret (absent), or everything
\* (store unreachable).
Outages == {"none", "all"} \cup SecretNames
\* Values of the AZURE_CLIENT_ID bootstrap variable ("" = unset).
ClientIds == {"", "client-1"}
\* The secrets an operator may have stored without a value.
Blanks ==
    SUBSET {KV_AI_SEARCH_CONNECTION_ID, KV_AI_SEARCH_INDEX_NAME,
            KV_MCP_CONNECTION_ID}
\* Tool names a request may carry: the registered ones and an unknown one.
ToolInputs ==
    {"ai_search", "microsoft_learn_mcp", "code_interpreter", "unknown_tool"}
\* Every list of at most MaxLen tool names.
ToolNameLists == UNION {[1..n -> ToolInputs] : n \in 0..MaxLen}
\* The lists callers pass while the store has outages.
SampleLists ==
    {<<>>, <<"code_interpreter">>, <<"ai_search", "unknown_tool">>}
KeyVaultUri == "https://kv.vault.azure.net"

EmptyStr == <<>>
NoInstance == <<>>

----------------------------------------------------------------------------
(* utils/akv.py *)

\* SecretClient.get_secret(name): the remote lookup; a secret stored without
\* a value comes back as "" (`.value or ""`).
VaultGet(v, name) ==
    IF v.down = "all"
    THEN [raised |-> "ServiceRequestError", value |-> EmptyStr]
    ELSE IF v.down = name
    THEN [raised |-> "ResourceNotFoundError", value |-> EmptyStr]
    ELSE IF name \in v.blank
    THEN [raised |-> "", value |-> EmptyStr]
    ELSE [raised |-> "", value |-> <<name, v.rev>>]

\* dict item assignment: d[k] = x
DictSet(d, k, x) ==
    [n \in (DOMAIN d) \cup {k} |-> IF n = k THEN x ELSE d[n]]

EmptyDict == <<>>

\* The element of a one-element set (binds an intermediate result).
The(S) == CHOOSE x \in S : TRUE

\* get_secret with the cache check dropped: every call goes to the store.
get_secret_nocheck(cache, v, name, use_cache) ==
    LET r == VaultGet(v, name) IN
    IF r.raised # ""
    THEN [raised |-> r.raised, value |-> EmptyStr, cache |-> cache,
          asked |-> <<name>>, queried |-> <<name>>,
          store_error |-> r.raised]
    ELSE [raised |-> "", value |-> r.value,
          cache |-> DictSet(cache, name, r.value),
          asked |-> <<name>>, queried |-> <<name>>, store_error |-> ""]

\* get_secret substituting "" (and caching it) when the lookup fails.
get_secret_fallback(cache, v, name, use_cache) ==
    IF use_cache /\ name \in DOMAIN cache
    THEN [raised |-> "", value |-> cache[name], cache |-> cache,
          asked |-> <<name>>, queried |-> <<>>, store_error |-> ""]
    ELSE LET r == VaultGet(v, name) IN
         [raised |-> "", value |-> r.value,
          cache |-> DictSet(cache, name, r.value),
          asked |-> <<name>>, queried |-> <<name>>,
          store_error |-> r.raised]

\* get_secret(name, use_cache): the result, the cache after the call, the
\* names looked up remotely and the failure the store raised, if any.
get_secret(cache, v, name, use_cache) ==
    IF use_cache /\ name \in DOMAIN cache
    THEN [raised |-> "", value |-> cache[name], cache |-> cache,
          asked |-> <<name>>, queried |-> <<>>, store_error |-> ""]
    ELSE LET r == VaultGet(v, name) IN
         IF r.raised # ""
         THEN [raised |-> r.raised, value |-> EmptyStr, cache |-> cache,
               asked |-> <<name>>, queried |-> <<name>>,
               store_error |-> r.raised]
         ELSE [raised |-> "", value |-> r.value,
               cache |-> DictSet(cache, name, r.value),
               asked |-> <<name>>, queried |-> <<name>>,
               store_error |-> ""]

----------------------------------------------------------------------------
(* configs/settings.py *)

\* A Settings instance; oid is the identity of the Python object.
SettingsObject(oid, endpoint, conn, index, mcp, env) ==
    [oid |-> oid,
     foundry_project_endpoint |-> endpoint,
     ai_search_connection_id |-> conn,
     ai_search_index_name |-> index,
     mcp_connection_id |-> mcp,
     azure_client_id |-> env.AZURE_CLIENT_ID,
     key_vault_uri |-> env.KEY_VAULT_URI,
     storage_queue_name |-> AGENT_QUEUE_NAME]

SettingsFailed(r, asked, queried) ==
    [raised |-> r.raised, instance |-> NoInstance, cache |-> r.cache,
     asked |-> asked, queried |-> queried, store_error |-> r.store_error]

\* Settings(): the default factories run in field order; the first one that
\* raises ends the construction.
Settings(cache, v, env, oid) ==
    The({
      IF r1.raised # "" THEN SettingsFailed(r1, r1.asked, r1.queried) ELSE
      The({
        IF r2.raised # ""
        THEN SettingsFailed(r2, r1.asked \o r2.asked,
                            r1.queried \o r2.queried) ELSE
        The({
          IF r3.raised # ""
          THEN SettingsFailed(r3, r1.asked \o r2.asked \o r3.asked,
                              r1.queried \o r2.queried \o r3.queried) ELSE
          The({
            IF r4.raised # ""
            THEN SettingsFailed(r4,
                     r1.asked \o r2.asked \o r3.asked \o r4.asked,
                     r1.queried \o r2.queried \o r3.queried \o r4.queried)
            ELSE
            [raised |-> "",
             instance |-> <<SettingsObject(oid, r1.value, r2.value,
                                           r3.value, r4.value, env)>>,
             cache |-> r4.cache,
             asked |-> r1.asked \o r2.asked \o r3.asked \o r4.asked,
             queried |-> r1.queried \o r2.queried \o r3.queried
                             \o r4.queried,
             store_error |-> ""]
            : r4 \in {get_secret(r3.cache, v, KV_MCP_CONNECTION_ID, TRUE)}})
          : r3 \in {get_secret(r2.cache, v, KV_AI_SEARCH_INDEX_NAME, TRUE)}})
        : r2 \in {get_secret(r1.cache, v, KV_AI_SEARCH_CONNECTION_ID, TRUE)}})
      : r1 \in {get_secret(cache, v, KV_FOUNDRY_PROJECT_ENDPOINT, TRUE)}})

\* What get_settings hands back when Settings() was run.
Constructed(s, scache, count) ==
    IF s.raised # ""
    THEN [raised |-> s.raised, instance |-> NoInstance, scache |-> scache,
          cache |-> s.cache, asked |-> s.asked, queried |-> s.queried,
          count |-> count, store_error |-> s.store_error]
    ELSE [raised |-> "", instance |-> s.instance, scache |-> s.instance,
          cache |-> s.cache, asked |-> s.asked, queried |-> s.queried,
          count |-> count + 1, store_error |-> ""]

\* get_settings without the lru_cache: a new instance on every call.
get_settings_uncached(scache, cache, v, env, count) ==
    The({Constructed(s, scache, count) :
            s \in {Settings(cache, v, env, count + 1)}})

\* get_settings throwing the secret cache away when the construction fails.
get_settings_forgetful(scache, cache, v, env, count) ==
    IF scache # NoInstance
    THEN [raised |-> "", instance |-> scache, scache |-> scache,
          cache |-> cache, asked |-> <<>>, queried |-> <<>>,
          count |-> count, store_error |-> ""]
    ELSE The({IF s.raised # ""
              THEN [Constructed(s, scache, count) EXCEPT !.cache = EmptyDict]
              ELSE Constructed(s, scache, count) :
                 s \in {Settings(cache, v, env, count + 1)}})

\* get_settings(): lru_cache(maxsize=1) of a function without arguments.  A
\* call that raises caches nothing.
get_settings(scache, cache, v, env, count) ==
    IF scache # NoInstance
    THEN [raised |-> "", instance |-> scache, scache |-> scache,
          cache |-> cache, asked |-> <<>>, queried |-> <<>>,
          count |-> count, store_error |-> ""]
    ELSE The({Constructed(s, scache, count) :
                 s \in {Settings(cache, v, env, count + 1)}})

----------------------------------------------------------------------------
(* configs/tools_registry.py *)

\* _build_ai_search leaving the index binding out when it is not configured.
build_ai_search_unbound(settings) ==
    IF \/ settings.ai_search_connection_id = EmptyStr
       \/ settings.ai_search_index_name = EmptyStr
    THEN [tool_def |-> [type |-> "azure_ai_search"],
          tool_resources |-> EmptyDict, warned |-> TRUE]
    ELSE [tool_def |-> [type |-> "azure_ai_search"],
          tool_resources |->
              [azure_ai_search |->
                  [indexes |->
                      <<[index_connection_id |->
                             settings.ai_search_connection_id,
                         index_name |-> settings.ai_search_index_name]>>]],
          warned |-> FALSE]

\* _build_ai_search(settings) -> ToolEntry
build_ai_search(settings) ==
    [tool_def |-> [type |-> "azure_ai_search"],
     tool_resources |->
         [azure_ai_search |->
             [indexes |->
                 <<[index_connection_id |-> settings.ai_search_connection_id,
                    index_name |-> settings.ai_search_index_name]>>]],
     warned |-> \/ settings.ai_search_connection_id = EmptyStr
                \/ settings.ai_search_index_name = EmptyStr]

\* _build_microsoft_learn_mcp(settings) -> ToolEntry
build_microsoft_learn_mcp(settings) ==
    [tool_def |-> [type |-> "remote_mcp",
                   remote_mcp |->
                       [connection_id |-> settings.mcp_connection_id]],
     tool_resources |-> EmptyDict,
     warned |-> settings.mcp_connection_id = EmptyStr]

\* A code interpreter builder that declares a resource key of its own.
build_code_interpreter_with_files(settings) ==
    [tool_def |-> [type |-> "code_interpreter"],
     tool_resources |-> [code_interpreter |-> [file_ids |-> <<>>]],
     warned |-> FALSE]

\* _build_code_interpreter(_settings) -> ToolEntry
build_code_interpreter(settings) ==
    [tool_def |-> [type |-> "code_interpreter"],
     tool_resources |-> EmptyDict,
     warned |-> FALSE]

\* TOOL_REGISTRY: short name -> builder
TOOL_REGISTRY ==
    [name \in {"ai_search", "microsoft_learn_mcp", "code_interpreter"} |->
        CASE name = "ai_search" -> "_build_ai_search"
          [] name = "microsoft_learn_mcp" -> "_build_microsoft_learn_mcp"
          [] name = "code_interpreter" -> "_build_code_interpreter"]

\* builder(settings)
CallBuilder(builder, settings) ==
    CASE builder = "_build_ai_search" -> build_ai_search(settings)
      [] builder = "_build_microsoft_learn_mcp" ->
             build_microsoft_learn_mcp(settings)
      [] builder = "_build_code_interpreter" ->
             build_code_interpreter(settings)

\* d.get(k, default)
DictGet(d, k, default) == IF k \in DOMAIN d THEN d[k] ELSE default

\* The merge as dict.update: a later entry replaces the value under its key.
MergeResourcesOverwrite(tool_resources, entry_resources) ==
    [key \in (DOMAIN tool_resources) \cup (DOMAIN entry_resources) |->
        IF key \in DOMAIN entry_resources THEN entry_resources[key]
        ELSE tool_resources[key]]

\* The merge of one entry's tool_resources into the aggregate (the loop over
\* entry.tool_resources.items()): under a key the aggregate already has, each
\* sub-list is appended to the list found there; a new key is inserted.
MergeResources(tool_resources, entry_resources) ==
    [key \in (DOMAIN tool_resources) \cup (DOMAIN entry_resources) |->
        IF key \notin DOMAIN entry_resources THEN tool_resources[key]
        ELSE IF key \in DOMAIN tool_resources
        THEN [sub_key \in (DOMAIN tool_resources[key])
                            \cup (DOMAIN entry_resources[key]) |->
                 IF sub_key \notin DOMAIN entry_resources[key]
                 THEN tool_resources[key][sub_key]
                 ELSE DictGet(tool_resources[key], sub_key, <<>>)
                          \o entry_resources[key][sub_key]]
        ELSE entry_resources[key]]

\* The loop of resolve_tools over tool_names.
RECURSIVE ResolveLoop(_, _, _)
ResolveLoop(names, settings, acc) ==
    IF names = <<>> THEN acc
    ELSE LET name == Head(names) IN
         IF name \notin DOMAIN TOOL_REGISTRY
         THEN ResolveLoop(Tail(names), settings,
                          [acc EXCEPT !.skipped = Append(@, name)])
         ELSE LET entry == CallBuilder(TOOL_REGISTRY[name], settings) IN
              ResolveLoop(Tail(names), settings,
                  [tools |-> Append(acc.tools, entry.tool_def),
                   tool_resources |->
                       MergeResources(acc.tool_resources,
                                      entry.tool_resources),
                   skipped |-> acc.skipped,
                   warnings |-> acc.warnings
                                    + (IF entry.warned THEN 1 ELSE 0)])

\* The names of a list without repetitions, in order of first occurrence.
RECURSIVE Dedup(_, _)
Dedup(names, seen) ==
    IF names = <<>> THEN <<>>
    ELSE IF Head(names) \in seen THEN Dedup(Tail(names), seen)
    ELSE <<Head(names)>> \o Dedup(Tail(names), seen \cup {Head(names)})

\* What resolve_tools returns once the settings are in hand.
Resolved(g, names, raised) ==
    IF raised # ""
    THEN [raised |-> raised, tools |-> <<>>, tool_resources |-> EmptyDict,
          skipped |-> <<>>, warnings |-> 0,
          scache |-> g.scache, cache |-> g.cache, asked |-> g.asked,
          queried |-> g.queried, count |-> g.count, store_error |-> ""]
    ELSE The({
          [raised |-> "", tools |-> acc.tools,
           tool_resources |-> acc.tool_resources, skipped |-> acc.skipped,
           warnings |-> acc.warnings,
           scache |-> g.scache, cache |-> g.cache, asked |-> g.asked,
           queried |-> g.queried, count |-> g.count, store_error |-> ""]
          : acc \in {ResolveLoop(names, g.instance[1],
                         [tools |-> <<>>, tool_resources |-> EmptyDict,
                          skipped |-> <<>>, warnings |-> 0])}})

\* What resolve_tools raises when get_settings raised.
Unresolved(g) ==
    [raised |-> g.raised, tools |-> <<>>, tool_resources |-> EmptyDict,
     skipped |-> <<>>, warnings |-> 0,
     scache |-> g.scache, cache |-> g.cache, asked |-> g.asked,
     queried |-> g.queried, count |-> g.count,
     store_error |-> g.store_error]

\* resolve_tools building each requested tool once (names kept in a set).
resolve_tools_dedup(names, scache, cache, v, env, count) ==
    The({IF g.raised # "" THEN Unresolved(g)
         ELSE Resolved(g, Dedup(names, {}), "")
         : g \in {get_settings(scache, cache, v, env, count)}})

\* resolve_tools indexing the registry (TOOL_REGISTRY[name]): an unknown name
\* raises KeyError.
resolve_tools_strict(names, scache, cache, v, env, count) ==
    The({IF g.raised # "" THEN Unresolved(g)
         ELSE IF \E i \in 1..Len(names) :
                     names[i] \notin DOMAIN TOOL_REGISTRY
         THEN Resolved(g, <<>>, "KeyError")
         ELSE Resolved(g, names, "")
         : g \in {get_settings(scache, cache, v, env, count)}})

\* resolve_tools fetching the settings only when a requested tool reads
\* them.
resolve_tools_lazy(names, scache, cache, v, env, count) ==
    IF \A i \in 1..Len(names) :
           names[i] \notin {"ai_search", "microsoft_learn_mcp"}
    THEN Resolved([scache |-> scache, cache |-> cache, asked |-> <<>>,
                   queried |-> <<>>, count |-> count,
                   instance |-> <<[oid |-> 0]>>],
                  names, "")
    ELSE The({IF g.raised # "" THEN Unresolved(g)
              ELSE Resolved(g, names, "")
              : g \in {get_settings(scache, cache, v, env, count)}})

\* resolve_tools(tool_names): the settings first, then the loop.
resolve_tools(names, scache, cache, v, env, count) ==
    The({IF g.raised # "" THEN Unresolved(g) ELSE Resolved(g, names, "")
         : g \in {get_settings(scache, cache, v, env, count)}})

\* list_available_tools()
list_available_tools == DOMAIN TOOL_REGISTRY

----------------------------------------------------------------------------
(* configs/tools_registry.py on the heap: every dict and list is an object
   with an identity, and a dict or list refers to its elements *)

\* A cell of a dict or list: an immutable value (str) or a reference.
Val(x) == [val |-> x]
Ref(id) == [ref |-> id]

DictObject(items) == [kind |-> "dict", items |-> items]
ListObject(items) == [kind |-> "list", items |-> items]

\* TOOL_REGISTRY, the one module-level dict: name -> builder function.
RegistryObject ==
    DictObject([name \in DOMAIN TOOL_REGISTRY |-> Val(TOOL_REGISTRY[name])])

\* A dict or list display handing back an object equal to it that exists
\* already (interned literals).
AllocInterned(h, obj) ==
    IF \E id \in 2..Len(h) : h[id] = obj
    THEN [heap |-> h,
          ref |-> Ref(CHOOSE id \in 2..Len(h) : h[id] = obj)]
    ELSE [heap |-> Append(h, obj), ref |-> Ref(Len(h) + 1)]

\* A dict or list display ({...}, [...], dict()) creates a new object.
Alloc(h, obj) == [heap |-> Append(h, obj), ref |-> Ref(Len(h) + 1)]

\* The value a cell stands for: the objects it reaches, read now.
RECURSIVE Value(_, _)
Value(h, cell) ==
    IF "val" \in DOMAIN cell THEN cell.val
    ELSE IF h[cell.ref].kind = "dict"
    THEN [k \in DOMAIN h[cell.ref].items |-> Value(h, h[cell.ref].items[k])]
    ELSE [i \in 1..Len(h[cell.ref].items) |->
             Value(h, h[cell.ref].items[i])]

\* The objects a cell reaches.
RECURSIVE Reach(_, _)
Reach(h, cell) ==
    IF "val" \in DOMAIN cell THEN {}
    ELSE {cell.ref}
         \cup UNION {Reach(h, h[cell.ref].items[k]) :
                        k \in DOMAIN h[cell.ref].items}

\* _build_ai_search(settings): the ToolEntry's two dicts and what they hold.
build_ai_search_on_heap(h, settings) ==
    LET binding == Alloc(h, DictObject(
                       [index_connection_id |->
                            Val(settings.ai_search_connection_id),
                        index_name |-> Val(settings.ai_search_index_name)]))
        indexes == Alloc(binding.heap, ListObject(<<binding.ref>>))
        inner == Alloc(indexes.heap, DictObject([indexes |-> indexes.ref]))
        outer == Alloc(inner.heap,
                       DictObject([azure_ai_search |-> inner.ref]))
        def == Alloc(outer.heap,
                     DictObject([type |-> Val("azure_ai_search")]))
    IN [heap |-> def.heap, tool_def |-> def.ref,
        tool_resources |-> outer.ref]

\* _build_microsoft_learn_mcp(settings); tool_resources is field's
\* default_factory=dict.
build_microsoft_learn_mcp_on_heap(h, settings) ==
    LET remote == Alloc(h, DictObject(
                      [connection_id |-> Val(settings.mcp_connection_id)]))
        def == Alloc(remote.heap,
                     DictObject([type |-> Val("remote_mcp"),
                                 remote_mcp |-> remote.ref]))
        res == Alloc(def.heap, DictObject(EmptyDict))
    IN [heap |-> res.heap, tool_def |-> def.ref, tool_resources |-> res.ref]

\* _build_code_interpreter(_settings)
build_code_interpreter_on_heap(h, settings) ==
    LET def == Alloc(h, DictObject([type |-> Val("code_interpreter")]))
        res == Alloc(def.heap, DictObject(EmptyDict))
    IN [heap |-> res.heap, tool_def |-> def.ref, tool_resources |-> res.ref]

\* builder(settings)
CallBuilderOnHeap(h, builder, settings) ==
    CASE builder = "_build_ai_search" -> build_ai_search_on_heap(h, settings)
      [] builder = "_build_microsoft_learn_mcp" ->
             build_microsoft_learn_mcp_on_heap(h, settings)
      [] builder = "_build_code_interpreter" ->
             build_code_interpreter_on_heap(h, settings)

\* d[k] = cell on the dict object id.
SetItem(h, id, k, cell) ==
    [h EXCEPT ![id].items = DictSet(h[id].items, k, cell)]

\* resolve_tools, lines 132-134: for sub_key, sub_val in value.items() the
\* list found under sub_key of the aggregate's dict (or []) plus sub_val, a
\* new list, is stored under sub_key.
RECURSIVE MergeSubKeys(_, _, _, _)
MergeSubKeys(h, target, value, sub_keys) ==
    IF sub_keys = {} THEN h
    ELSE LET sub_key == CHOOSE k \in sub_keys : TRUE
             existing == IF sub_key \in DOMAIN h[target].items
                         THEN h[h[target].items[sub_key].ref].items
                         ELSE <<>>
             sum == Alloc(h, ListObject(
                        existing \o h[h[value].items[sub_key].ref].items))
         IN MergeSubKeys(SetItem(sum.heap, target, sub_key, sum.ref),
                         target, value, sub_keys \ {sub_key})

\* resolve_tools, lines 129-136: for key, value in
\* entry.tool_resources.items().
RECURSIVE MergeOnHeap(_, _, _, _)
MergeOnHeap(h, aggregate, entry_resources, keys) ==
    IF keys = {} THEN h
    ELSE LET key == CHOOSE k \in keys : TRUE
             value == h[entry_resources].items[key]
         IN MergeOnHeap(
                IF key \in DOMAIN h[aggregate].items
                THEN MergeSubKeys(h, h[aggregate].items[key].ref, value.ref,
                                  DOMAIN h[value.ref].items)
                ELSE SetItem(h, aggregate, key, value),
                aggregate, entry_resources, keys \ {key})

\* resolve_tools, lines 119-136: the loop, on the objects tools and
\* tool_resources.
RECURSIVE ResolveOnHeap(_, _, _, _, _)
ResolveOnHeap(h, names, settings, tools, tool_resources) ==
    IF names = <<>> THEN h
    ELSE IF Head(names) \notin DOMAIN TOOL_REGISTRY
    THEN ResolveOnHeap(h, Tail(names), settings, tools, tool_resources)
    ELSE LET entry == CallBuilderOnHeap(h, TOOL_REGISTRY[Head(names)],
                                        settings)
             appended == [entry.heap EXCEPT
                             ![tools].items = Append(@, entry.tool_def)]
         IN ResolveOnHeap(
                MergeOnHeap(appended, tool_resources,
                            entry.tool_resources.ref,
                            DOMAIN appended[entry.tool_resources.ref].items),
                Tail(names), settings, tools, tool_resources)

\* resolve_tools, lines 116-138, once the settings are in hand: the two
\* objects it returns and the heap it leaves.
resolve_tools_on_heap(h, names, settings) ==
    LET tools == Alloc(h, ListObject(<<>>))
        tool_resources == Alloc(tools.heap, DictObject(EmptyDict))
    IN [heap |-> ResolveOnHeap(tool_resources.heap, names, settings,
                               tools.ref.ref, tool_resources.ref.ref),
        tools |-> tools.ref, tool_resources |-> tool_resources.ref]

\* What a caller does to an object it was handed: d["injected"] = "x" on a
\* dict, l.append("x") on a list.
Mutate(h, id) ==
    IF h[id].kind = "dict"
    THEN SetItem(h, id, "injected", Val("x"))
    ELSE [h EXCEPT ![id].items = Append(@, Val("x"))]

\* The lists the callers of this section pass.
IsolationLists ==
    {<<>>, <<"code_interpreter">>, <<"ai_search">>,
     <<"ai_search", "ai_search">>, <<"microsoft_learn_mcp", "ai_search">>}

----------------------------------------------------------------------------
(* History of the get_secret traffic since the last clear_cache *)

Range(seq) == {seq[i] : i \in 1..Len(seq)}
Count(seq, x) == Cardinality({i \in 1..Len(seq) : seq[i] = x})

NoQueries == [n \in SecretNames |-> 0]
ClosedEpoch == [open |-> FALSE, requested |-> {}, queries |-> NoQueries]
FreshEpoch == [open |-> TRUE, requested |-> {}, queries |-> NoQueries]

\* An epoch opens at clear_cache and stays open while every get_secret call
\* uses the default use_cache=True and the store serves every lookup; while
\* open it records the names requested and the lookups made per name.
EpochAfter(e, asked, queried, clean) ==
    IF ~e.open \/ ~clean THEN ClosedEpoch
    ELSE [open |-> TRUE,
          requested |-> e.requested \cup Range(asked),
          queries |-> [n \in SecretNames |->
                          e.queries[n] + Count(queried, n)]]

EpochBounded(e) == \A n \in SecretNames : e.queries[n] <= MaxQueries

----------------------------------------------------------------------------
(* prompts/agent_prompts.py *)

AGENT_PROMPTS ==
    [name \in {"doc-bot", "code-helper", "default"} |->
        CASE name = "doc-bot" ->
                 "You are a documentation assistant. Use the connected AI Search index to find relevant documentation, then provide clear, concise answers with source references. If the answer is not in the index, say so honestly."
          [] name = "code-helper" ->
                 "You are a coding assistant specialised in Azure services. Answer questions about Azure SDKs, Bicep, ARM templates, and cloud architecture. Provide code samples when helpful."
          [] name = "default" ->
                 "You are a helpful AI assistant powered by Azure AI Foundry."]

\* get_prompt that ignores the table.
get_prompt_default(agent_name) == AGENT_PROMPTS["default"]

\* get_prompt(agent_name)
get_prompt(agent_name) ==
    DictGet(AGENT_PROMPTS, agent_name, AGENT_PROMPTS["default"])

----------------------------------------------------------------------------
(* utils/foundry_client.py *)

\* _build_credential(): chosen from the Settings snapshot.
build_credential(settings) ==
    IF settings.azure_client_id # ""
    THEN [type |-> "ManagedIdentityCredential",
          client_id |-> settings.azure_client_id]
    ELSE [type |-> "DefaultAzureCredential", client_id |-> ""]

\* get_project_client(): lru_cache(maxsize=1); the settings are cached by the
\* time the handlers call it.
get_project_client(pclient, settings) ==
    IF pclient # <<>> THEN pclient
    ELSE <<[endpoint |-> settings.foundry_project_endpoint,
            credential |-> build_credential(settings)]>>

----------------------------------------------------------------------------
(* Queue messages *)

\* A field of a JSON object is absent (<<>>) or present with a value (<<x>>).
AgentNameOpts == {<<>>, <<"doc-bot">>, <<"">>}
LegacyNameOpts == {<<>>, <<"legacy-bot">>}
ModelOpts == {<<>>, <<"gpt-4o">>}
InstructionOpts == {<<>>, <<"Answer briefly.">>, <<"">>}
ToolsOpts ==
    {<<>>, << <<"ai_search", "unknown_tool">> >>,
     << <<"microsoft_learn_mcp", "ai_search", "ai_search">> >>}

MakeConfig(an, ln, m, i, t) ==
    LET opt(k) == CASE k = "agent_name" -> an
                    [] k = "agentName" -> ln
                    [] k = "model" -> m
                    [] k = "instructions" -> i
                    [] k = "tools" -> t
        keys == {k \in {"agent_name", "agentName", "model", "instructions",
                        "tools"} : opt(k) # <<>>}
    IN [k \in keys |-> opt(k)[1]]

\* Bodies that are not a JSON object: the JSON array [], a JSON number, and
\* text that is not JSON.
BadBodies ==
    {[kind |-> k, config |-> EmptyDict] : k \in {"array", "number", "malformed"}}

\* Message bodies: JSON objects, and bodies that are not one.
Messages ==
    {[kind |-> "object", config |-> MakeConfig(an, ln, m, i, t)] :
        an \in AgentNameOpts, ln \in LegacyNameOpts, m \in ModelOpts,
        i \in InstructionOpts, t \in ToolsOpts}
    \cup BadBodies

\* Bodies that are well-formed JSON but not a JSON object.
NonObjectBodies ==
    {[kind |-> k, config |-> EmptyDict] :
        k \in {"array", "string", "number", "null"}}

\* Messages naming an agent and its tools, nothing else.
PlainMessages ==
    {msg \in Messages :
        /\ msg.kind = "object"
        /\ DOMAIN msg.config \subseteq {"agent_name", "tools"}}

\* The outages the handlers meet: none, the store unreachable, one secret
\* absent.
HandlerOutages == {"none", "all", KV_AI_SEARCH_INDEX_NAME}

\* Outcomes of the external create-agent operation.
ApiOutcomes == {"", "HttpResponseError"}

----------------------------------------------------------------------------
(* function_app.py, src/function_app.py *)

\* config.get(key, other) in the place of config.get(key) or other.
GetPresent(config, key, other) ==
    IF key \in DOMAIN config THEN config[key] ELSE other

\* x or y, for str x (None when the key is absent)
GetOr(config, key, other) ==
    IF key \in DOMAIN config /\ config[key] # "" THEN config[key] ELSE other

\* A handler invocation that ends before resolve_tools is reached.
Stopped(raised, trace, st) ==
    [raised |-> raised, calls |-> <<>>, trace |-> trace,
     scache |-> st.scache, cache |-> st.cache, count |-> st.count,
     pclient |-> st.pclient, asked |-> <<>>, queried |-> <<>>,
     store_error |-> ""]

\* create_agent invoked again after a failure.
InvokeCreateAgentRetrying(api, call) ==
    IF api # "" THEN <<call, call>> ELSE <<call>>

\* project_client.agents.create_agent(...): the invocations the service
\* receives from one handler invocation.
InvokeCreateAgent(api, call) == <<call>>

\* The common part of both handlers, from the model default to the
\* create_agent call: model, instructions, tools, resolve_tools,
\* get_project_client, project_client.agents.create_agent(...).
CreateFromConfig(agent_name, config, st, v, env, api) ==
    LET model == DictGet(config, "model", "gpt-4.1")
        instructions == GetOr(config, "instructions", get_prompt(agent_name))
        tool_names == DictGet(config, "tools", <<>>)
    IN  The({
        IF r.raised # ""
        THEN [raised |-> r.raised, calls |-> <<>>,
              trace |-> <<"parse", "resolve_tools">>,
              scache |-> r.scache, cache |-> r.cache, count |-> r.count,
              pclient |-> st.pclient, asked |-> r.asked,
              queried |-> r.queried, store_error |-> r.store_error]
        ELSE [raised |-> api,
              calls |-> InvokeCreateAgent(
                            api, [model |-> model, name |-> agent_name,
                                  instructions |-> instructions,
                                  tools |-> r.tools,
                                  tool_resources |-> r.tool_resources]),
              trace |-> <<"parse", "resolve_tools", "get_project_client",
                          "create_agent">>,
              scache |-> r.scache, cache |-> r.cache, count |-> r.count,
              pclient |-> get_project_client(st.pclient, r.scache[1]),
              asked |-> r.asked, queried |-> r.queried,
              store_error |-> ""]
        : r \in {resolve_tools(tool_names, st.scache, st.cache, v, env,
                               st.count)}})

\* agent_creation_processor that logs a decode failure and returns.
agent_creation_processor_dropping(msg, st, v, env, api) ==
    IF msg.kind = "malformed"
    THEN Stopped("", <<"parse">>, st)
    ELSE IF msg.kind # "object"
    THEN Stopped("AttributeError", <<"parse">>, st)
    ELSE CreateFromConfig(
             GetOr(msg.config, "agent_name",
                   DictGet(msg.config, "agentName", "default-agent")),
             msg.config, st, v, env, api)

\* agent_creation_processor (function_app.py): every failure is logged and
\* re-raised.
agent_creation_processor(msg, st, v, env, api) ==
    IF msg.kind = "malformed"
    THEN Stopped("JSONDecodeError", <<"parse">>, st)
    ELSE IF msg.kind # "object"
    THEN Stopped("AttributeError", <<"parse">>, st)
    ELSE CreateFromConfig(
             GetOr(msg.config, "agent_name",
                   DictGet(msg.config, "agentName", "default-agent")),
             msg.config, st, v, env, api)

\* create_agent reading the name as config["agent_name"].
create_agent_required(msg, st, v, env, api) ==
    IF msg.kind = "malformed"
    THEN Stopped("", <<"parse">>, st)
    ELSE IF msg.kind # "object"
    THEN Stopped("AttributeError", <<"parse">>, st)
    ELSE IF "agent_name" \notin DOMAIN msg.config
    THEN Stopped("KeyError", <<"parse">>, st)
    ELSE CreateFromConfig(msg.config["agent_name"], msg.config, st, v, env,
                          api)

\* create_agent returning on every body that is not a JSON object.
create_agent_dropping(msg, st, v, env, api) ==
    IF msg.kind # "object"
    THEN Stopped("", <<"parse">>, st)
    ELSE CreateFromConfig(DictGet(msg.config, "agent_name", "default-agent"),
                          msg.config, st, v, env, api)

\* create_agent (src/function_app.py): a body that is not JSON is logged and
\* the handler returns.
create_agent(msg, st, v, env, api) ==
    IF msg.kind = "malformed"
    THEN Stopped("", <<"parse">>, st)
    ELSE IF msg.kind # "object"
    THEN Stopped("AttributeError", <<"parse">>, st)
    ELSE CreateFromConfig(DictGet(msg.config, "agent_name", "default-agent"),
                          msg.config, st, v, env, api)

----------------------------------------------------------------------------
(* function_app.py: the request/response handler *)

\* Text is a sequence of pieces; a piece stands for a run of characters.
\* str.split(sep): the segments of s between the occurrences of sep.
RECURSIVE Split(_, _)
Split(s, sep) ==
    IF \A i \in 1..Len(s) : s[i] # sep THEN <<s>>
    ELSE LET i == CHOOSE k \in 1..Len(s) :
                      s[k] = sep /\ \A j \in 1..(k - 1) : s[j] # sep
         IN <<SubSeq(s, 1, i - 1)>> \o Split(SubSeq(s, i + 1, Len(s)), sep)

\* Values of AGENT_STORAGE_ACCOUNT__accountname (<<>>: unset or empty).
AccountNames == {<<>>, <<"acct1">>}
\* Values of AGENT_STORAGE_ACCOUNT__queueServiceUri (<<>>: unset or empty),
\* one of them without the scheme.
QueueServiceUris ==
    {<<>>,
     <<"https:", "//", "acct2", ".", "queue", ".", "core", ".", "windows",
       ".", "net">>,
     <<"acct2", ".", "queue", ".", "core", ".", "windows", ".", "net">>}

\* Request fields: absent (<<>>) or present with a value (<<x>>).
RequestIdOpts == {<<>>, <<"req-1">>}
QueryOpts == {<<>>, <<"What time is it?">>, <<"">>}
RequesterOpts == {<<>>, <<"agent-a">>, <<"">>}

MakeRequest(id, q, rq) ==
    LET opt(k) == CASE k = "requestId" -> id
                    [] k = "query" -> q
                    [] k = "requester" -> rq
        keys == {k \in {"requestId", "query", "requester"} : opt(k) # <<>>}
    IN [k \in keys |-> opt(k)[1]]

\* Request bodies: JSON objects, and bodies that are not one.
Requests ==
    {[kind |-> "object", config |-> MakeRequest(id, q, rq)] :
        id \in RequestIdOpts, q \in QueryOpts, rq \in RequesterOpts}
    \cup BadBodies

\* time.time() - start_time, in clock readings.
Elapsed == {0, 1}
\* Outcomes of queue_client.send_message.
SendOutcomes == {"", "ServiceRequestError"}

SK_AGENT_RESPONSE_QUEUE_NAME == "sk-agent-response-queue"

\* The account send_response_to_queue addresses.
StorageAccount(env) ==
    LET named == env.AGENT_STORAGE_ACCOUNT__accountname
        uri == env.AGENT_STORAGE_ACCOUNT__queueServiceUri
        parts == Split(uri, "//")
    IN  IF named # <<>> THEN [raised |-> "", name |-> named]
        ELSE IF uri = <<>> THEN [raised |-> "", name |-> <<"None">>]
        ELSE IF Len(parts) < 2 THEN [raised |-> "IndexError", name |-> <<>>]
        ELSE [raised |-> "", name |-> Split(parts[2], ".")[1]]

\* The message send_message puts on the queue.
QueueMessage(account, queue_name, response_data) ==
    [account_url |-> <<"https:", "//">> \o account
                         \o <<".", "queue", ".", "core", ".", "windows",
                              ".", "net">>,
     queue_name |-> queue_name,
     json |-> response_data]

\* send_response_to_queue calling send_message a second time.
send_response_twice(response_data, queue_name, env, send) ==
    The({IF a.raised # "" THEN [raised |-> a.raised, sent |-> <<>>]
         ELSE IF send # "" THEN [raised |-> send, sent |-> <<>>]
         ELSE [raised |-> "",
               sent |-> <<QueueMessage(a.name, queue_name, response_data),
                          QueueMessage(a.name, queue_name, response_data)>>]
         : a \in {StorageAccount(env)}})

\* send_response_to_queue(response_data, queue_name): the account comes from
\* the environment; every failure is logged and re-raised.
send_response_to_queue(response_data, queue_name, env, send) ==
    The({IF a.raised # "" THEN [raised |-> a.raised, sent |-> <<>>]
         ELSE IF send # "" THEN [raised |-> send, sent |-> <<>>]
         ELSE [raised |-> "",
               sent |-> <<QueueMessage(a.name, queue_name, response_data)>>]
         : a \in {StorageAccount(env)}})

\* sk_agent_processor(msg): every failure is logged and re-raised.
sk_agent_processor(msg, env, elapsed, send) ==
    IF msg.kind = "malformed"
    THEN [raised |-> "JSONDecodeError", sent |-> <<>>, trace |-> <<"parse">>]
    ELSE IF msg.kind = "number"
    THEN [raised |-> "TypeError", sent |-> <<>>,
          trace |-> <<"parse", "validate">>]
    ELSE IF \/ msg.kind = "array"
            \/ "requestId" \notin DOMAIN msg.config
            \/ "query" \notin DOMAIN msg.config
    THEN [raised |-> "ValueError", sent |-> <<>>,
          trace |-> <<"parse", "validate">>]
    ELSE LET request_id == msg.config["requestId"]
             query == msg.config["query"]
             requester == DictGet(msg.config, "requester", "unknown")
             response_data ==
                 [requestId |-> request_id,
                  query |-> query,
                  answer |-> <<"[Mock Response] Processed query: '", query,
                               "'">>,
                  metadata |-> [processingTime |-> elapsed,
                                pluginsUsed |-> <<"time", "weather">>,
                                requester |-> requester]]
         IN The({[raised |-> r.raised, sent |-> r.sent,
                  trace |-> <<"parse", "validate",
                              "send_response_to_queue">>]
                 : r \in {send_response_to_queue(
                              response_data, SK_AGENT_RESPONSE_QUEUE_NAME,
                              env, send)}})

----------------------------------------------------------------------------
(* Concurrent callers of get_secret and get_settings: one step per statement
   that reads or writes the shared caches *)

Threads == 1..MaxThreads

\* A caller between calls, having made `made` calls.
IdleThread(made) ==
    [pc |-> "idle", op |-> "none", name |-> "", pending |-> <<>>,
     got |-> <<>>,
     use_cache |-> TRUE, fetched |-> EmptyStr, instance |-> NoInstance,
     late |-> FALSE, made |-> made]

\* The secrets Settings() fetches, in field order.
SettingsSecrets ==
    <<KV_FOUNDRY_PROJECT_ENDPOINT, KV_AI_SEARCH_CONNECTION_ID,
      KV_AI_SEARCH_INDEX_NAME, KV_MCP_CONNECTION_ID>>

\* Where a caller continues once the secret at the head of pending is in
\* hand: the next secret, the construction of the snapshot, or the return.
AfterSecret(th, value) ==
    [th EXCEPT !.got = Append(th.got, value),
               !.pending = Tail(th.pending),
               !.pc = IF Len(th.pending) > 1 THEN "check"
                      ELSE IF th.op = "get_settings" THEN "construct"
                      ELSE "return"]

\* _secret_cache[name] = value, with the value taken from the cache entry of
\* the first secret name instead of the caller's own lookup.
WriteSecretShared(cache, th) ==
    DictSet(cache, Head(th.pending),
            DictGet(cache, KV_FOUNDRY_PROJECT_ENDPOINT, th.fetched))

\* _secret_cache[name] = value (akv.py line 65)
WriteSecret(cache, th) == DictSet(cache, Head(th.pending), th.fetched)

\* lru_cache storing the latest result over the one it holds.
LruStoreOverwrite(scache, th) == th.instance

\* lru_cache after the call of Settings(): the result is stored unless the
\* key was added while the call ran.
LruStore(scache, th) ==
    IF scache = NoInstance THEN th.instance ELSE scache

----------------------------------------------------------------------------
(* function_app.py, src/function_app.py: handler invocations running at once,
   statement by statement *)

Handlers == {"agent_creation_processor", "create_agent"}

\* The steps of an invocation that creates an agent.
FullTrace == <<"parse", "resolve_tools", "get_project_client", "create_agent">>

\* The messages delivered while other invocations are in flight.
ConcurrentMessages ==
    {[kind |-> "object",
      config |-> MakeConfig(<<"doc-bot">>, <<>>, <<>>, <<>>,
                            << <<"ai_search", "unknown_tool">> >>)],
     [kind |-> "object",
      config |-> MakeConfig(<<>>, <<"legacy-bot">>, <<"gpt-4o">>, <<>>,
                            <<>>)],
     [kind |-> "array", config |-> EmptyDict],
     [kind |-> "malformed", config |-> EmptyDict]}

\* The locals of an invocation of handler for msg, on entry.
Invocation(handler, msg, overlap) ==
    [pc |-> "parse", op |-> handler, msg |-> msg, made |-> 1,
     overlap |-> overlap, config |-> EmptyDict, agent_name |-> "",
     tools |-> <<>>, tool_resources |-> EmptyDict, resolved |-> FALSE,
     trace |-> <<>>, calls |-> <<>>, api |-> "", raised |-> ""]

\* Whether an invocation is between its entry and its end.
InFlight(th) == th.pc \notin {"idle", "done"}

\* The message of some invocation in flight, as a module-level variable
\* written on entry would hold it.
SharedMessage(ths, t) == ths[CHOOSE u \in Threads : InFlight(ths[u])].msg

\* msg, the parameter of the invocation: the message it was called with.
OwnMessage(ths, t) == ths[t].msg

\* What json.loads raises out of the handler for a body, "" when the
\* handler goes on or returns.
ParseOutcome(handler, msg) ==
    IF msg.kind = "malformed"
    THEN IF handler = "create_agent" THEN "" ELSE "JSONDecodeError"
    ELSE IF msg.kind # "object" THEN "AttributeError" ELSE ""

\* agent_name as each handler reads it.
AgentName(handler, config) ==
    IF handler = "create_agent"
    THEN DictGet(config, "agent_name", "default-agent")
    ELSE GetOr(config, "agent_name",
               DictGet(config, "agentName", "default-agent"))

----------------------------------------------------------------------------
(* examples/sk_agent_request_response.py *)

Clients == 1..MaxClients

\* A SemanticKernelAgentClient on which send_query has not been called yet.
IdleClient ==
    [pc |-> "idle", request_id |-> <<>>, answered |-> FALSE,
     batch |-> <<>>, deleted |-> {}, result |-> [kind |-> "none"]]

\* request_id = str(uuid.uuid4()): no two calls draw the same id.
Uuid4(c) == <<"uuid", c>>

\* request_message of send_query, as the function app receives it.
RequestMessage(c) ==
    [kind |-> "object",
     config |-> MakeRequest(<<Uuid4(c)>>, <<"What time is it?">>,
                             <<"foundry-agent">>)]

\* Messages of other origin: text that is not JSON, JSON that is not an
\* object, and a response to a request of no polling client.
ForeignBodies ==
    {[kind |-> "malformed", json |-> EmptyDict],
     [kind |-> "array", json |-> EmptyDict],
     [kind |-> "number", json |-> EmptyDict],
     [kind |-> "object", json |-> [requestId |-> <<"uuid", 0>>]]}

\* The ids of the messages of the queue that are visible, in queue order.
RECURSIVE VisibleIds(_)
VisibleIds(q) ==
    IF q = <<>> THEN <<>>
    ELSE IF Head(q).hidden THEN VisibleIds(Tail(q))
    ELSE <<Head(q).id>> \o VisibleIds(Tail(q))

\* receive_messages(visibility_timeout=5): the messages handed out are
\* hidden from every receiver.
Hide(q, ids) ==
    [i \in 1..Len(q) |->
        IF q[i].id \in Range(ids) THEN [q[i] EXCEPT !.hidden = TRUE]
        ELSE q[i]]

\* delete_message(message)
DeleteMessage(q, id) == SelectSeq(q, LAMBDA m : m.id # id)

\* The message of the queue with a given id.
MessageOf(q, id) == The({q[i].body : i \in {j \in 1..Len(q) : q[j].id = id}})

\* The body of the `for message in messages` loop of send_query, lines
\* 100-123, on the message with a given id.
HandleMessage(cl, q, id) ==
    The({
      IF body.kind = "malformed"
      THEN [client |-> [cl EXCEPT !.batch = Tail(@)], queue |-> q]
      ELSE IF body.kind # "object"
      THEN [client |-> [cl EXCEPT !.pc = "done", !.batch = Tail(@),
                                  !.result = [kind |-> "raise",
                                              error |-> "AttributeError"]],
            queue |-> q]
      ELSE IF DictGet(body.json, "requestId", <<>>) = cl.request_id
      THEN [client |-> [cl EXCEPT !.pc = "done", !.batch = Tail(@),
                                  !.deleted = @ \cup {id},
                                  !.result = [kind |-> "return",
                                              response |-> body]],
            queue |-> DeleteMessage(q, id)]
      ELSE [client |-> [cl EXCEPT !.batch = Tail(@)], queue |-> q]
      : body \in {MessageOf(q, id)}})

----------------------------------------------------------------------------
(* deploy-function.py *)

NoScript == [name |-> "none", pc |-> "none"]

\* Command lines of deploy-function.py: no argument at all, or the function
\* app name with or without a resource group and a build option.
DeployFunctionArgs ==
    {[given |-> FALSE, resource_group |-> FALSE, build |-> "none"]}
    \cup {[given |-> TRUE, resource_group |-> rg, build |-> b] :
              rg \in BOOLEAN,
              b \in {"none", "--build-remote", "--build-native-deps"}}

\* Outcomes of a command run through run_command: exit status zero or not.
CommandOutcomes == {"ok", "failed"}
\* Outcomes of subprocess.run(cmd) in deploy_function_app: exit status zero
\* or not, or func cannot be started (the exception leaves main).
PublishOutcomes == {"ok", "failed", "not_started"}

\* sys.exit(code), or an exception leaving main (code 1).
Exited(sc, code) == [sc EXCEPT !.pc = "exited", !.exit = code]

\* run_command that reports a failing command and lets the script go on.
run_command_unchecked(sc, outcome, next) ==
    [sc EXCEPT !.pc = next,
               !.tried = Append(sc.tried, sc.pc),
               !.done = IF outcome = "ok" THEN Append(sc.done, sc.pc)
                        ELSE sc.done]

\* run_command(cmd) with check=True: a failing command ends the script with
\* status 1, otherwise the script goes on at `next`; tried lists the commands
\* the script ran, done those that succeeded.
run_command(sc, outcome, next) ==
    IF outcome = "ok"
    THEN [sc EXCEPT !.pc = next, !.tried = Append(sc.tried, sc.pc),
                    !.done = Append(sc.done, sc.pc)]
    ELSE Exited([sc EXCEPT !.tried = Append(sc.tried, sc.pc)], 1)

\* main(): lines 70-85, the command line.
DeployFunctionMain(args) ==
    LET sc == [name |-> "deploy-function", pc |-> "start", args |-> args,
               build_option |-> IF args.build = "--build-native-deps"
                                THEN "native-deps" ELSE "remote",
               success |-> FALSE, publish_result |-> "none", exit |-> 0,
               tried |-> <<>>, done |-> <<>>]
    IN  IF ~args.given THEN Exited(sc, 1)
        ELSE IF args.resource_group THEN [sc EXCEPT !.pc = "list_settings"]
        ELSE [sc EXCEPT !.pc = "infer_resource_group"]

----------------------------------------------------------------------------
(* scripts/deploy.py *)

\* Command lines of scripts/deploy.py: -y, --infra-only, --func-only, -n.
DeployArgs ==
    [yes : BOOLEAN, infra_only : BOOLEAN, func_only : BOOLEAN,
     named : BOOLEAN]

\* What input(...) gives: a line typed by the user, or EOFError when no
\* terminal input is available.
Answers == {"y", "Y", "n", "eof"}

\* str.lower() on the answers.
Lower(answer) == IF answer = "Y" THEN "y" ELSE answer

\* Outcomes of subprocess.run in run_command: exit status zero or not, or the
\* executable cannot be started.
DeployOutcomes == {"ok", "failed", "not_started"}

\* The deployment outputs deploy_infrastructure queries, one command each.
output_queries ==
    <<"resourceGroupName", "functionAppName", "agentStorageAccountName",
      "agentCreationQueueName", "skAgentRequestQueueName",
      "skAgentResponseQueueName", "appInsightsName">>

\* run_command(cmd, check=True) of scripts/deploy.py: a command that fails or
\* cannot be started ends the script with status 1.
deploy_run_command(sc, outcome, next) ==
    IF outcome = "ok"
    THEN [sc EXCEPT !.pc = next, !.done = Append(sc.done, sc.pc)]
    ELSE Exited(sc, 1)

\* main(): lines 181-210, the command line.
DeployMain(args) ==
    [name |-> "deploy", pc |-> "az_version", args |-> args,
     prompts |-> <<>>, outputs |-> 0, exit |-> 0, done |-> <<>>]

\* main(): lines 215-219 and 238-240, after the subscription is known.
AfterSubscription(sc) ==
    IF sc.args.func_only
    THEN IF ~sc.args.named THEN Exited(sc, 1)
         ELSE [sc EXCEPT !.pc = "previous_app_name"]
    ELSE [sc EXCEPT !.pc = "confirm_deployment"]

\* main(): lines 243-256, after deploy_infrastructure has returned.
AfterInfrastructure(sc) ==
    IF sc.args.infra_only THEN [sc EXCEPT !.pc = "complete"]
    ELSE IF sc.args.yes THEN [sc EXCEPT !.pc = "publish"]
    ELSE [sc EXCEPT !.pc = "confirm_function"]

----------------------------------------------------------------------------
(* State machine of one process: the calls made on it, one after another *)

Init ==
    /\ vault = [rev |-> "v0", down |-> "none", blank |-> {}]
    /\ environ = [AZURE_CLIENT_ID |-> "client-1",
                  KEY_VAULT_URI |-> KeyVaultUri,
                  AGENT_STORAGE_ACCOUNT__accountname |-> <<"acct1">>,
                  AGENT_STORAGE_ACCOUNT__queueServiceUri |-> <<>>]
    /\ response_queue = <<>>
    /\ threads = [t \in Threads |-> IdleThread(0)]
    /\ returned = {}
    /\ script = NoScript
    /\ clients = [c \in Clients |-> IdleClient]
    /\ inbox = <<>>
    /\ heap = <<RegistryObject>>
    /\ results = <<>>
    /\ cloud = [storage_public |-> FALSE, app_public |-> FALSE,
                conn_setting |-> FALSE, infrastructure |-> FALSE,
                published |-> FALSE]
    /\ secret_cache = EmptyDict
    /\ settings_cache = NoInstance
    /\ allocated = 0
    /\ project_client = <<>>
    /\ first_settings = NoInstance
    /\ epoch = ClosedEpoch
    /\ last = [op |-> "start"]

\* A caller invokes get_secret(name, use_cache=use_cache).
GetSecretCall(name, use_cache) ==
    \E r \in {get_secret(secret_cache, vault, name, use_cache)} :
        /\ secret_cache' = r.cache
        /\ epoch' = EpochAfter(epoch, r.asked, r.queried,
                               use_cache /\ r.store_error = "")
        /\ EpochBounded(epoch')
        /\ last' = [op |-> "get_secret", name |-> name,
                    use_cache |-> use_cache, raised |-> r.raised,
                    value |-> r.value, queried |-> r.queried,
                    store_error |-> r.store_error,
                    cached_before |-> name \in DOMAIN secret_cache]
        /\ UNCHANGED <<heap, results, clients, inbox, script, cloud, threads, returned, response_queue, vault, environ, settings_cache, allocated,
                       project_client, first_settings>>

\* clear_cache() that also drops the cached Settings snapshot.
ClearCacheAll ==
    /\ secret_cache' = EmptyDict
    /\ settings_cache' = NoInstance
    /\ epoch' = FreshEpoch
    /\ last' = [op |-> "clear_cache"]
    /\ UNCHANGED <<heap, results, clients, inbox, script, cloud, threads, returned, response_queue, vault, environ, allocated, project_client,
                   first_settings>>

\* A caller invokes clear_cache(): _secret_cache.clear()
ClearCacheCall ==
    /\ secret_cache' = EmptyDict
    /\ epoch' = FreshEpoch
    /\ last' = [op |-> "clear_cache"]
    /\ UNCHANGED <<heap, results, clients, inbox, script, cloud, threads, returned, response_queue, vault, environ, settings_cache, allocated,
                   project_client, first_settings>>

\* A caller invokes get_settings().
GetSettingsCall ==
    /\ allocated < MaxObjects
    /\ \E r \in {get_settings(settings_cache, secret_cache, vault, environ,
                              allocated)} :
        /\ settings_cache' = r.scache
        /\ secret_cache' = r.cache
        /\ allocated' = r.count
        /\ first_settings' =
               IF first_settings = NoInstance THEN r.instance
               ELSE first_settings
        /\ epoch' = EpochAfter(epoch, r.asked, r.queried,
                               r.store_error = "")
        /\ EpochBounded(epoch')
        /\ last' = [op |-> "get_settings", raised |-> r.raised,
                    instance |-> r.instance, queried |-> r.queried,
                    store_error |-> r.store_error]
        /\ UNCHANGED <<heap, results, clients, inbox, script, cloud, threads, returned, response_queue, vault, environ, project_client>>

\* A caller invokes foundry_client._build_credential().
BuildCredentialCall ==
    /\ allocated < MaxObjects
    /\ \E r \in {get_settings(settings_cache, secret_cache, vault, environ,
                              allocated)} :
        /\ settings_cache' = r.scache
        /\ secret_cache' = r.cache
        /\ allocated' = r.count
        /\ first_settings' =
               IF first_settings = NoInstance THEN r.instance
               ELSE first_settings
        /\ epoch' = EpochAfter(epoch, r.asked, r.queried,
                               r.store_error = "")
        /\ EpochBounded(epoch')
        /\ last' = [op |-> "_build_credential", raised |-> r.raised,
                    credential |-> IF r.raised = ""
                                   THEN <<build_credential(r.instance[1])>>
                                   ELSE <<>>,
                    queried |-> r.queried, store_error |-> r.store_error]
        /\ UNCHANGED <<heap, results, clients, inbox, script, cloud, threads, returned, response_queue,
                       vault, environ, project_client>>

\* A caller invokes resolve_tools(names).
ResolveToolsCall(names) ==
    /\ allocated < MaxObjects
    /\ \E r \in {resolve_tools(names, settings_cache, secret_cache, vault,
                               environ, allocated)} :
        /\ settings_cache' = r.scache
        /\ secret_cache' = r.cache
        /\ allocated' = r.count
        /\ epoch' = EpochAfter(epoch, r.asked, r.queried,
                               r.store_error = "")
        /\ EpochBounded(epoch')
        /\ last' = [op |-> "resolve_tools", names |-> names,
                    raised |-> r.raised, tools |-> r.tools,
                    tool_resources |-> r.tool_resources,
                    skipped |-> r.skipped, warnings |-> r.warnings,
                    queried |-> r.queried, store_error |-> r.store_error]
        /\ UNCHANGED <<heap, results, clients, inbox, script, cloud, threads, returned, response_queue, vault, environ, project_client, first_settings>>

\* The process state a handler invocation starts from.
ProcessState ==
    [scache |-> settings_cache, cache |-> secret_cache, count |-> allocated,
     pclient |-> project_client]

\* What a handler invocation leaves behind.
HandlerDone(op, msg, api, r) ==
    /\ settings_cache' = r.scache
    /\ secret_cache' = r.cache
    /\ allocated' = r.count
    /\ project_client' = r.pclient
    /\ epoch' = EpochAfter(epoch, r.asked, r.queried, r.store_error = "")
    /\ EpochBounded(epoch')
    /\ last' = [op |-> op, msg |-> msg, api |-> api, raised |-> r.raised,
                calls |-> r.calls, trace |-> r.trace,
                queried |-> r.queried, store_error |-> r.store_error,
                sent |-> <<>>]
    /\ UNCHANGED <<heap, results, clients, inbox, script, cloud, threads, returned, response_queue, vault, environ, first_settings>>

\* The platform delivers msg to agent_creation_processor.
AgentCreationProcessor(msg, api) ==
    /\ allocated < MaxObjects
    /\ \E r \in {agent_creation_processor(msg, ProcessState, vault, environ,
                                          api)} :
        HandlerDone("agent_creation_processor", msg, api, r)

\* The platform delivers msg to create_agent.
CreateAgent(msg, api) ==
    /\ allocated < MaxObjects
    /\ \E r \in {create_agent(msg, ProcessState, vault, environ, api)} :
        HandlerDone("create_agent", msg, api, r)

\* The environment: a secret is deleted or restored, the store becomes
\* unreachable or reachable again.
VaultOutage(down) ==
        /\ down # vault.down
        /\ vault' = [vault EXCEPT !.down = down]
        /\ last' = [op |-> "vault_outage"]
        /\ UNCHANGED <<heap, results, clients, inbox, script, cloud, threads, returned, response_queue, environ, secret_cache, settings_cache, allocated,
                       project_client, first_settings, epoch>>


\* An operator stores some secrets without a value, before the process has
\* taken its Settings snapshot (the snapshot is taken once).
VaultBlank(blank) ==
    /\ settings_cache = NoInstance
    /\ blank # vault.blank
    /\ vault' = [vault EXCEPT !.blank = blank]
    /\ last' = [op |-> "vault_blank"]
    /\ UNCHANGED <<heap, results, clients, inbox, script, cloud, threads, returned, response_queue,
                   environ, secret_cache, settings_cache, allocated,
                   project_client, first_settings, epoch>>

\* The environment: the secrets' values are rotated.
VaultRotate ==
    \E rev \in Revs :
        /\ rev # vault.rev
        /\ vault' = [vault EXCEPT !.rev = rev]
        /\ last' = [op |-> "vault_rotate"]
        /\ UNCHANGED <<heap, results, clients, inbox, script, cloud, threads, returned, response_queue, environ, secret_cache, settings_cache, allocated,
                       project_client, first_settings, epoch>>

\* The environment: AZURE_CLIENT_ID is set or unset.
EnvChange ==
    \E cid \in ClientIds :
        /\ cid # environ.AZURE_CLIENT_ID
        /\ environ' = [environ EXCEPT !.AZURE_CLIENT_ID = cid]
        /\ last' = [op |-> "env_change"]
        /\ UNCHANGED <<heap, results, clients, inbox, script, cloud, threads, returned, response_queue, vault, secret_cache, settings_cache, allocated,
                       project_client, first_settings, epoch>>

\* The platform delivers msg to sk_agent_processor.
SkAgentProcessor(msg, elapsed, send) ==
    /\ Len(response_queue) < MaxResponses
    /\ \E r \in {sk_agent_processor(msg, environ, elapsed, send)} :
        /\ response_queue' = response_queue \o r.sent
        /\ last' = [op |-> "sk_agent_processor", msg |-> msg, api |-> "",
                    raised |-> r.raised, calls |-> <<>>, trace |-> r.trace,
                    queried |-> <<>>, store_error |-> "", sent |-> r.sent,
                    send |-> send, elapsed |-> elapsed]
        /\ UNCHANGED <<heap, results, clients, inbox, script, cloud, vault, environ, secret_cache, settings_cache,
                       allocated, project_client, threads, returned,
                       first_settings, epoch>>

\* The environment: the process is started with another storage account
\* configuration.
StorageEnvChange ==
    \E name \in AccountNames, uri \in QueueServiceUris :
        /\ <<name, uri>> # <<environ.AGENT_STORAGE_ACCOUNT__accountname,
                             environ.AGENT_STORAGE_ACCOUNT__queueServiceUri>>
        /\ last.op = "start"
        /\ environ' =
               [environ EXCEPT !.AGENT_STORAGE_ACCOUNT__accountname = name,
                               !.AGENT_STORAGE_ACCOUNT__queueServiceUri = uri]
        /\ UNCHANGED <<heap, results, clients, inbox, script, cloud, vault, secret_cache, settings_cache, allocated,
                       project_client, response_queue, threads, returned,
                       first_settings, epoch, last>>

\* Caller t enters get_secret(name, use_cache=use_cache).
BeginGetSecret(t, name, use_cache) ==
    /\ threads[t].pc = "idle"
    /\ threads[t].made < MaxCalls
    /\ threads' = [threads EXCEPT ![t] =
           [IdleThread(threads[t].made + 1) EXCEPT
               !.pc = "check", !.op = "get_secret", !.name = name,
               !.pending = <<name>>, !.use_cache = use_cache]]
    /\ UNCHANGED <<heap, results, clients, inbox, script, cloud, vault, environ, secret_cache, settings_cache, allocated,
                   project_client, response_queue, returned, first_settings,
                   epoch, last>>

\* Caller t enters get_settings(): the lru_cache lookup.
BeginGetSettings(t) ==
    /\ threads[t].pc = "idle"
    /\ threads[t].made < MaxCalls
    /\ threads' = [threads EXCEPT ![t] =
           IF settings_cache # NoInstance
           THEN [IdleThread(threads[t].made + 1) EXCEPT
                    !.pc = "return", !.op = "get_settings",
                    !.instance = settings_cache,
                    !.late = \E r \in returned : r.op = "get_settings"]
           ELSE [IdleThread(threads[t].made + 1) EXCEPT
                    !.pc = "check", !.op = "get_settings",
                    !.pending = SettingsSecrets,
                    !.late = \E r \in returned : r.op = "get_settings"]]
    /\ UNCHANGED <<heap, results, clients, inbox, script, cloud, vault, environ, secret_cache, settings_cache, allocated,
                   project_client, response_queue, returned, first_settings,
                   epoch, last>>

\* get_secret line 61: if use_cache and name in _secret_cache
CheckSecret(t) ==
    /\ threads[t].pc = "check"
    /\ threads' = [threads EXCEPT ![t].pc =
           IF threads[t].use_cache
              /\ Head(threads[t].pending) \in DOMAIN secret_cache
           THEN "read" ELSE "lookup"]
    /\ UNCHANGED <<heap, results, clients, inbox, script, cloud, vault, environ, secret_cache, settings_cache, allocated,
                   project_client, response_queue, returned, first_settings,
                   epoch, last>>

\* get_secret line 62: return _secret_cache[name]
ReadSecret(t) ==
    /\ threads[t].pc = "read"
    /\ Head(threads[t].pending) \in DOMAIN secret_cache
    /\ threads' = [threads EXCEPT ![t] =
           AfterSecret(threads[t], secret_cache[Head(threads[t].pending)])]
    /\ UNCHANGED <<heap, results, clients, inbox, script, cloud, vault, environ, secret_cache, settings_cache, allocated,
                   project_client, response_queue, returned, first_settings,
                   epoch, last>>

\* get_secret line 64: value = _get_client().get_secret(name).value or ""
LookupSecret(t) ==
    /\ threads[t].pc = "lookup"
    /\ \E r \in {VaultGet(vault, Head(threads[t].pending))} :
           /\ r.raised = ""
           /\ threads' = [threads EXCEPT ![t].fetched = r.value,
                                         ![t].pc = "write"]
    /\ UNCHANGED <<heap, results, clients, inbox, script, cloud, vault, environ, secret_cache, settings_cache, allocated,
                   project_client, response_queue, returned, first_settings,
                   epoch, last>>

\* get_secret lines 65-67: _secret_cache[name] = value; return value
StoreSecret(t) ==
    /\ threads[t].pc = "write"
    /\ secret_cache' = WriteSecret(secret_cache, threads[t])
    /\ threads' = [threads EXCEPT ![t] =
           AfterSecret(threads[t], threads[t].fetched)]
    /\ UNCHANGED <<heap, results, clients, inbox, script, cloud, vault, environ, settings_cache, allocated,
                   project_client, response_queue, returned, first_settings,
                   epoch, last>>

\* Settings(): the remaining fields are read and the object is built.
ConstructSettings(t) ==
    /\ threads[t].pc = "construct"
    /\ allocated' = allocated + 1
    /\ threads' = [threads EXCEPT
           ![t].instance =
               <<SettingsObject(allocated + 1, threads[t].got[1],
                                threads[t].got[2], threads[t].got[3],
                                threads[t].got[4], environ)>>,
           ![t].pc = "store"]
    /\ UNCHANGED <<heap, results, clients, inbox, script, cloud, vault, environ, secret_cache, settings_cache,
                   project_client, response_queue, returned, first_settings,
                   epoch, last>>

\* lru_cache after the call: store the result unless one is stored already;
\* the caller gets the result of its own call of Settings().
StoreSettings(t) ==
    /\ threads[t].pc = "store"
    /\ settings_cache' = LruStore(settings_cache, threads[t])
    /\ threads' = [threads EXCEPT ![t].pc = "return"]
    /\ UNCHANGED <<heap, results, clients, inbox, script, cloud, vault, environ, secret_cache, allocated,
                   project_client, response_queue, returned, first_settings,
                   epoch, last>>

\* The call of caller t returns.
ReturnToCaller(t) ==
    /\ threads[t].pc = "return"
    /\ returned' = returned \cup
           {IF threads[t].op = "get_settings"
            THEN [op |-> "get_settings", name |-> "", value |-> EmptyStr,
                  instance |-> threads[t].instance,
                  late |-> threads[t].late]
            ELSE [op |-> "get_secret", name |-> threads[t].name,
                  value |-> threads[t].got[1], instance |-> NoInstance,
                  late |-> FALSE]}
    /\ threads' = [threads EXCEPT ![t] = IdleThread(threads[t].made)]
    /\ UNCHANGED <<heap, results, clients, inbox, script, cloud, vault, environ, secret_cache, settings_cache, allocated,
                   project_client, response_queue, first_settings, epoch,
                   last>>

\* python3 deploy-function.py <args>
RunDeployFunction(args) ==
    /\ script = NoScript
    /\ script' = DeployFunctionMain(args)
    /\ UNCHANGED <<heap, results, clients, inbox, vault, environ, secret_cache, settings_cache, allocated,
                   project_client, response_queue, threads, returned, cloud,
                   first_settings, epoch, last>>

\* A step of deploy-function.py that runs a command and moves on.
ScriptCommand(at, outcome, next, effect) ==
    /\ script.name = "deploy-function"
    /\ script.pc = at
    /\ script' = run_command(script, outcome, next)
    /\ cloud' = IF outcome = "ok" THEN effect ELSE cloud
    /\ UNCHANGED <<heap, results, clients, inbox, vault, environ, secret_cache, settings_cache, allocated,
                   project_client, response_queue, threads, returned,
                   first_settings, epoch, last>>

\* lines 87-99: az functionapp show (check=False, then sys.exit(1))
InferResourceGroup(outcome) ==
    ScriptCommand("infer_resource_group", outcome, "list_settings", cloud)

\* lines 106-119: az functionapp config appsettings list; an empty answer
\* ends the script.
ListAppSettings(outcome, found) ==
    ScriptCommand("list_settings",
                  IF found THEN outcome ELSE "failed", "enable_storage",
                  cloud)

\* lines 123-132: az storage account update --public-network-access Enabled
EnableStorageAccess(outcome) ==
    ScriptCommand("enable_storage", outcome, "enable_app",
                  [cloud EXCEPT !.storage_public = TRUE])

\* lines 134-142: az functionapp update --set publicNetworkAccess=Enabled
EnableAppAccess(outcome) ==
    ScriptCommand("enable_app", outcome, "get_connection_string",
                  [cloud EXCEPT !.app_public = TRUE])

\* line 145: get_storage_connection_string
GetConnectionString(outcome) ==
    ScriptCommand("get_connection_string", outcome, "set_app_setting", cloud)

\* line 149: set_app_setting(..., "AzureWebJobsStorage", conn_string)
SetConnectionSetting(outcome) ==
    ScriptCommand("set_app_setting", outcome, "publish",
                  [cloud EXCEPT !.conn_setting = TRUE])

\* line 158: success = deploy_function_app(function_app, build_option)
PublishFunctionApp(outcome) ==
    /\ script.name = "deploy-function"
    /\ script.pc = "publish"
    /\ script' = IF outcome = "not_started"
                 THEN Exited([script EXCEPT
                                 !.tried = Append(@, "publish"),
                                 !.publish_result = outcome], 1)
                 ELSE [script EXCEPT !.pc = "delete_app_setting",
                                     !.success = (outcome = "ok"),
                                     !.publish_result = outcome,
                                     !.tried = Append(@, "publish"),
                                     !.done = IF outcome = "ok"
                                              THEN Append(script.done,
                                                          "publish")
                                              ELSE script.done]
    /\ cloud' = IF outcome = "ok" THEN [cloud EXCEPT !.published = TRUE]
                ELSE cloud
    /\ UNCHANGED <<heap, results, clients, inbox, vault, environ, secret_cache, settings_cache, allocated,
                   project_client, response_queue, threads, returned,
                   first_settings, epoch, last>>

\* line 164: delete_app_setting(..., "AzureWebJobsStorage"); sys.exit is not
\* caught by `except Exception`.
DeleteConnectionSetting(outcome) ==
    ScriptCommand("delete_app_setting", outcome, "disable_storage",
                  [cloud EXCEPT !.conn_setting = FALSE])

\* lines 169-176: az storage account update --public-network-access Disabled
DisableStorageAccess(outcome) ==
    ScriptCommand("disable_storage", outcome, "disable_app",
                  [cloud EXCEPT !.storage_public = FALSE])

\* lines 181-187: az functionapp update --set publicNetworkAccess=Disabled
DisableAppAccess(outcome) ==
    ScriptCommand("disable_app", outcome, "report",
                  [cloud EXCEPT !.app_public = FALSE])

\* lines 195-204: sys.exit(0) after a successful publish, sys.exit(1) else
DeployFunctionExit ==
    /\ script.name = "deploy-function"
    /\ script.pc = "report"
    /\ script' = Exited(script, IF script.success THEN 0 ELSE 1)
    /\ UNCHANGED <<heap, results, clients, inbox, vault, environ, secret_cache, settings_cache, allocated,
                   project_client, response_queue, threads, returned, cloud,
                   first_settings, epoch, last>>

\* python3 scripts/deploy.py <args>
RunDeploy(args) ==
    /\ script = NoScript
    /\ script' = DeployMain(args)
    /\ UNCHANGED <<heap, results, clients, inbox, vault, environ, secret_cache, settings_cache, allocated,
                   project_client, response_queue, threads, returned, cloud,
                   first_settings, epoch, last>>

\* A step of scripts/deploy.py: the script record and the cloud resources
\* change, the function process does not.
DeployStep(at, sc, cl) ==
    /\ script.name = "deploy"
    /\ script.pc = at
    /\ script' = sc
    /\ cloud' = cl
    /\ UNCHANGED <<heap, results, clients, inbox, vault, environ, secret_cache, settings_cache, allocated,
                   project_client, response_queue, threads, returned,
                   first_settings, epoch, last>>

\* check_azure_cli, lines 53-56: az --version
CheckAzureCli(outcome) ==
    DeployStep("az_version",
               deploy_run_command(script, outcome, "account_show"), cloud)

\* check_azure_cli, lines 58-60: az account show (check=False)
CheckLogin(outcome) ==
    DeployStep("account_show",
               IF outcome = "not_started" THEN Exited(script, 1)
               ELSE IF outcome = "ok"
               THEN deploy_run_command(script, outcome, "subscription_name")
               ELSE [script EXCEPT !.pc = "az_login"],
               cloud)

\* check_azure_cli, line 61: az login
AzLogin(outcome) ==
    DeployStep("az_login",
               deploy_run_command(script, outcome, "subscription_name"),
               cloud)

\* get_subscription_info, lines 65-69
SubscriptionName(outcome) ==
    DeployStep("subscription_name",
               deploy_run_command(script, outcome, "subscription_id"), cloud)

\* get_subscription_info, lines 71-77, and the branch of main at line 215
SubscriptionId(outcome) ==
    DeployStep("subscription_id",
               IF outcome = "ok"
               THEN AfterSubscription(
                        deploy_run_command(script, outcome, "known"))
               ELSE Exited(script, 1),
               cloud)

\* main, lines 223-228: function app name of the previous deployment
PreviousAppName(outcome) ==
    DeployStep("previous_app_name",
               deploy_run_command(script, outcome, "previous_group_name"),
               cloud)

\* main, lines 230-235: resource group of the previous deployment
PreviousGroupName(outcome) ==
    DeployStep("previous_group_name",
               deploy_run_command(script, outcome, "publish"), cloud)

\* deploy_infrastructure, lines 113-122: _skip_confirm is set nowhere, so
\* the question is asked whatever the command line.
ConfirmDeployment(answer) ==
    DeployStep("confirm_deployment",
               The({IF answer # "eof" /\ Lower(answer) # "y"
                    THEN Exited(asked, 0)
                    ELSE [asked EXCEPT !.pc = "deploy_infrastructure"] :
                    asked \in {[script EXCEPT
                                   !.prompts = Append(@, "proceed")]}}),
               cloud)

\* deploy_infrastructure, lines 124-136: az deployment sub create
DeployInfrastructure(outcome) ==
    DeployStep("deploy_infrastructure",
               deploy_run_command(script, outcome, "query_outputs"),
               IF outcome = "ok" THEN [cloud EXCEPT !.infrastructure = TRUE]
               ELSE cloud)

\* deploy_infrastructure, lines 153-158: one query of the loop; after the
\* last one the function returns to main.
QueryOutput(outcome) ==
    DeployStep("query_outputs",
               IF outcome # "ok" THEN Exited(script, 1)
               ELSE IF script.outputs + 1 < Len(output_queries)
               THEN [script EXCEPT !.outputs = @ + 1]
               ELSE AfterInfrastructure(
                        [script EXCEPT !.outputs = @ + 1,
                                       !.done = Append(@, "query_outputs")]),
               cloud)

\* main, lines 250-256: the question asked without --yes
ConfirmFunction(answer) ==
    DeployStep("confirm_function",
               [script EXCEPT
                   !.prompts = Append(@, "function"),
                   !.pc = IF answer # "eof" /\ Lower(answer) = "y"
                          THEN "publish" ELSE "complete"],
               cloud)

\* deploy_function_code, lines 167-179: func azure functionapp publish
DeployFunctionCode(outcome) ==
    DeployStep("publish", deploy_run_command(script, outcome, "complete"),
               IF outcome = "ok" THEN [cloud EXCEPT !.published = TRUE]
               ELSE cloud)

\* main, lines 258-259: the script ends normally
DeployComplete ==
    DeployStep("complete", Exited(script, 0), cloud)

\* send_query, lines 71-90: the request is sent and the polling starts.
SendQuery(c) ==
    /\ clients[c].pc = "idle"
    /\ clients' = [clients EXCEPT ![c].pc = "poll",
                                  ![c].request_id = Uuid4(c)]
    /\ UNCHANGED <<heap, results, inbox, vault, environ, secret_cache, settings_cache,
                   allocated, project_client, response_queue, threads,
                   returned, script, cloud, first_settings, epoch, last>>

\* The function app handles the request of client c and sends its response.
Respond(c, elapsed) ==
    /\ clients[c].pc # "idle"
    /\ ~clients[c].answered
    /\ \E r \in {sk_agent_processor(RequestMessage(c), environ, elapsed,
                                    "")} :
        /\ r.raised = ""
        /\ inbox' = Append(inbox, [id |-> <<"response", c>>,
                                   body |-> [kind |-> "object",
                                             json |-> r.sent[1].json],
                                   hidden |-> FALSE])
    /\ clients' = [clients EXCEPT ![c].answered = TRUE]
    /\ UNCHANGED <<heap, results, vault, environ, secret_cache, settings_cache,
                   allocated, project_client, response_queue, threads,
                   returned, script, cloud, first_settings, epoch, last>>

\* Another writer puts a message on the response queue.
ForeignMessage(body) ==
    /\ \E n \in {Len(SelectSeq(inbox, LAMBDA m : m.id[1] = "foreign"))} :
           /\ n < MaxForeign
           /\ inbox' = Append(inbox, [id |-> <<"foreign", n>>,
                                      body |-> body, hidden |-> FALSE])
    /\ UNCHANGED <<heap, results, clients, vault, environ, secret_cache, settings_cache,
                   allocated, project_client, response_queue, threads,
                   returned, script, cloud, first_settings, epoch, last>>

\* send_query, lines 92-98 and 129: the loop test and receive_messages.
ReceiveMessages(c, expired) ==
    /\ clients[c].pc = "poll"
    /\ IF expired
       THEN /\ clients' = [clients EXCEPT
                              ![c].pc = "done",
                              ![c].result = [kind |-> "raise",
                                             error |-> "TimeoutError"]]
            /\ inbox' = inbox
       ELSE \E ids \in {VisibleIds(inbox)} :
                /\ clients' = [clients EXCEPT ![c].pc = "scan",
                                              ![c].batch = ids]
                /\ inbox' = Hide(inbox, ids)
    /\ UNCHANGED <<heap, results, vault, environ, secret_cache, settings_cache,
                   allocated, project_client, response_queue, threads,
                   returned, script, cloud, first_settings, epoch, last>>

\* send_query, lines 100-126: one message of the batch, or the sleep after
\* the last one.
ScanMessage(c) ==
    /\ clients[c].pc = "scan"
    /\ IF clients[c].batch = <<>>
       THEN /\ clients' = [clients EXCEPT ![c].pc = "poll"]
            /\ inbox' = inbox
       ELSE \E r \in {HandleMessage(clients[c], inbox,
                                    Head(clients[c].batch))} :
                /\ clients' = [clients EXCEPT ![c] = r.client]
                /\ inbox' = r.queue
    /\ UNCHANGED <<heap, results, vault, environ, secret_cache, settings_cache,
                   allocated, project_client, response_queue, threads,
                   returned, script, cloud, first_settings, epoch, last>>

\* The visibility timeout of a received message runs out (the five seconds
\* outlast the scan of the batch it was received in).
VisibilityTimeout(i) ==
    /\ i \in 1..Len(inbox)
    /\ inbox[i].hidden
    /\ \A c \in Clients :
           clients[c].pc = "scan" => inbox[i].id \notin Range(clients[c].batch)
    /\ inbox' = [inbox EXCEPT ![i].hidden = FALSE]
    /\ UNCHANGED <<heap, results, clients, vault, environ, secret_cache, settings_cache,
                   allocated, project_client, response_queue, threads,
                   returned, script, cloud, first_settings, epoch, last>>

\* The changes the callers have made so far.
RECURSIVE Mutations(_)
Mutations(rs) ==
    IF rs = <<>> THEN 0 ELSE Head(rs).mutations + Mutations(Tail(rs))

\* A caller invokes resolve_tools(names) and keeps the pair it returns.
ResolveToolsOnHeap(names) ==
    /\ allocated < MaxObjects
    /\ Len(results) < MaxCalls
    /\ \E g \in {get_settings(settings_cache, secret_cache, vault, environ,
                              allocated)} :
        /\ g.raised = ""
        /\ settings_cache' = g.scache
        /\ secret_cache' = g.cache
        /\ allocated' = g.count
        /\ \E r \in {resolve_tools_on_heap(heap, names, g.instance[1])} :
            /\ heap' = r.heap
            /\ results' =
                   Append(results,
                          [names |-> names, tools |-> r.tools,
                           tool_resources |-> r.tool_resources,
                           settings |-> g.instance,
                           value |-> <<Value(r.heap, r.tools),
                                       Value(r.heap, r.tool_resources)>>,
                           mutations |-> 0])
        /\ last' = [op |-> "resolve_tools_on_heap", names |-> names,
                    raised |-> ""]
    /\ UNCHANGED <<clients, inbox, script, cloud, threads, returned,
                   response_queue, vault, environ, project_client,
                   first_settings, epoch>>

\* The caller changes an object of a result it holds.
CallerMutates(i, id) ==
    /\ i \in 1..Len(results)
    /\ Mutations(results) < MaxMutations
    /\ id \in Reach(heap, results[i].tools)
                  \cup Reach(heap, results[i].tool_resources)
    /\ heap' = Mutate(heap, id)
    /\ results' = [results EXCEPT ![i].mutations = @ + 1]
    /\ last' = [op |-> "mutate", result |-> i, object |-> id]
    /\ UNCHANGED <<clients, inbox, script, cloud, threads, returned,
                   response_queue, vault, environ, secret_cache,
                   settings_cache, allocated, project_client,
                   first_settings, epoch>>

\* The platform calls handler with msg on worker t.
BeginHandler(t, handler, msg) ==
    /\ threads[t].pc = "idle"
    /\ threads[t].made = 0
    /\ threads' = [threads EXCEPT ![t] =
           Invocation(handler, msg, \E u \in Threads : InFlight(threads[u]))]
    /\ UNCHANGED <<heap, results, clients, inbox, script, cloud, vault,
                   environ, secret_cache, settings_cache, allocated,
                   project_client, response_queue, returned, first_settings,
                   epoch, last>>

\* json.loads of the body and the reads of agent_name, model, instructions
\* and tools.
ParseMessage(t) ==
    /\ threads[t].pc = "parse"
    /\ \E msg \in {OwnMessage(threads, t)} :
        threads' = [threads EXCEPT ![t] =
           IF msg.kind # "object"
           THEN [@ EXCEPT !.pc = "done", !.trace = <<"parse">>,
                          !.raised = ParseOutcome(threads[t].op, msg)]
           ELSE [@ EXCEPT !.pc = "resolve", !.trace = <<"parse">>,
                          !.config = msg.config,
                          !.agent_name =
                              AgentName(threads[t].op, msg.config)]]
    /\ UNCHANGED <<heap, results, clients, inbox, script, cloud, vault,
                   environ, secret_cache, settings_cache, allocated,
                   project_client, response_queue, returned, first_settings,
                   epoch, last>>

\* tools, tool_resources = resolve_tools(tool_names)
ResolveStep(t) ==
    /\ threads[t].pc = "resolve"
    /\ allocated < MaxObjects
    /\ \E r \in {resolve_tools(DictGet(threads[t].config, "tools", <<>>),
                               settings_cache, secret_cache, vault, environ,
                               allocated)} :
        /\ settings_cache' = r.scache
        /\ secret_cache' = r.cache
        /\ allocated' = r.count
        /\ threads' = [threads EXCEPT ![t] =
               IF r.raised # ""
               THEN [@ EXCEPT !.pc = "done", !.raised = r.raised,
                              !.trace = Append(@, "resolve_tools")]
               ELSE [@ EXCEPT !.pc = "client", !.resolved = TRUE,
                              !.tools = r.tools,
                              !.tool_resources = r.tool_resources,
                              !.trace = Append(@, "resolve_tools")]]
    /\ UNCHANGED <<heap, results, clients, inbox, script, cloud, vault,
                   environ, project_client, response_queue, returned,
                   first_settings, epoch, last>>

\* project_client = get_project_client()
ClientStep(t) ==
    /\ threads[t].pc = "client"
    /\ settings_cache # NoInstance
    /\ project_client' = get_project_client(project_client, settings_cache[1])
    /\ threads' = [threads EXCEPT
           ![t].pc = "create",
           ![t].trace = Append(@, "get_project_client")]
    /\ UNCHANGED <<heap, results, clients, inbox, script, cloud, vault,
                   environ, secret_cache, settings_cache, allocated,
                   response_queue, returned, first_settings, epoch, last>>

\* project_client.agents.create_agent(model=..., name=..., ...)
CreateStep(t, api) ==
    /\ threads[t].pc = "create"
    /\ threads' = [threads EXCEPT ![t] =
           [@ EXCEPT
               !.pc = "done", !.api = api, !.raised = api,
               !.trace = Append(@, "create_agent"),
               !.calls = InvokeCreateAgent(api,
                   [model |-> DictGet(threads[t].config, "model", "gpt-4.1"),
                    name |-> threads[t].agent_name,
                    instructions |->
                        GetOr(threads[t].config, "instructions",
                              get_prompt(threads[t].agent_name)),
                    tools |-> threads[t].tools,
                    tool_resources |-> threads[t].tool_resources])]]
    /\ UNCHANGED <<heap, results, clients, inbox, script, cloud, vault,
                   environ, secret_cache, settings_cache, allocated,
                   project_client, response_queue, returned, first_settings,
                   epoch, last>>

\* The secret and settings layer against a store with outages.
Next ==
    \/ \E name \in SecretNames, use_cache \in BOOLEAN :
           GetSecretCall(name, use_cache)
    \/ ClearCacheCall
    \/ GetSettingsCall
    \/ \E names \in SampleLists : ResolveToolsCall(names)
    \/ \E down \in Outages : VaultOutage(down)

Spec == Init /\ [][Next]_vars

\* The secret and settings layer against rotated secrets and a changing
\* environment; callers fetch two of the secrets directly.
NextDrift ==
    \/ \E name \in {KV_FOUNDRY_PROJECT_ENDPOINT, KV_AI_SEARCH_INDEX_NAME},
          use_cache \in BOOLEAN : GetSecretCall(name, use_cache)
    \/ ClearCacheCall
    \/ GetSettingsCall
    \/ VaultRotate
    \/ EnvChange

SpecDrift == Init /\ [][NextDrift]_vars

\* resolve_tools on every list of tool names, against rotated secrets.
NextResolve ==
    \/ \E names \in ToolNameLists : ResolveToolsCall(names)
    \/ VaultRotate

SpecResolve == Init /\ [][NextResolve]_vars

\* get_settings called again and again against a store with outages and
\* rotated secrets.
NextRetry ==
    \/ GetSettingsCall
    \/ ClearCacheCall
    \/ VaultRotate
    \/ \E down \in Outages : VaultOutage(down)

SpecRetry == Init /\ [][NextRetry]_vars

\* resolve_tools and the agent-creation handlers in a process whose callers
\* also fetch secrets directly, against a store with outages.
NextUnavailable ==
    \/ \E name \in SecretNames : GetSecretCall(name, TRUE)
    \/ \E names \in SampleLists : ResolveToolsCall(names)
    \/ \E msg \in PlainMessages, api \in ApiOutcomes :
           AgentCreationProcessor(msg, api)
    \/ \E msg \in PlainMessages, api \in ApiOutcomes : CreateAgent(msg, api)
    \/ \E down \in Outages : VaultOutage(down)

SpecUnavailable == Init /\ [][NextUnavailable]_vars

\* The agent-creation handlers on bodies of every kind.
NextBodies ==
    \/ \E msg \in NonObjectBodies \cup BadBodies \cup PlainMessages,
          api \in ApiOutcomes : AgentCreationProcessor(msg, api)
    \/ \E msg \in NonObjectBodies \cup BadBodies \cup PlainMessages,
          api \in ApiOutcomes : CreateAgent(msg, api)
    \/ \E down \in HandlerOutages : VaultOutage(down)

SpecBodies == Init /\ [][NextBodies]_vars

\* Callers of resolve_tools that change what they were handed.
NextIsolation ==
    \/ \E names \in IsolationLists : ResolveToolsOnHeap(names)
    \/ \E i \in 1..Len(results), id \in 1..Len(heap) : CallerMutates(i, id)

SpecIsolation == Init /\ [][NextIsolation]_vars

\* Agent-creation invocations for different messages running at once.
NextConcurrent ==
    \/ \E t \in Threads, handler \in Handlers, msg \in ConcurrentMessages :
           BeginHandler(t, handler, msg)
    \/ \E t \in Threads : ParseMessage(t)
    \/ \E t \in Threads : ResolveStep(t)
    \/ \E t \in Threads : ClientStep(t)
    \/ \E t \in Threads, api \in ApiOutcomes : CreateStep(t, api)
    \/ \E down \in {"none", "all"} :
           settings_cache = NoInstance /\ VaultOutage(down)

SpecConcurrent == Init /\ [][NextConcurrent]_vars

\* resolve_tools on every list of tool names, against secrets stored without
\* a value.
NextBuilders ==
    \/ \E names \in ToolNameLists : ResolveToolsCall(names)
    \/ \E blank \in Blanks : VaultBlank(blank)

SpecBuilders == Init /\ [][NextBuilders]_vars

\* The agent-creation handlers, one message at a time.
NextHandlers ==
    \/ \E msg \in Messages, api \in ApiOutcomes :
           AgentCreationProcessor(msg, api)
    \/ \E msg \in Messages, api \in ApiOutcomes : CreateAgent(msg, api)
    \/ \E down \in HandlerOutages : VaultOutage(down)

SpecHandlers == Init /\ [][NextHandlers]_vars

\* The three queue handlers of one process: requests to sk_agent_processor,
\* and bodies that are not JSON objects (and {}) to the creation handlers.
NextSk ==
    \/ \E msg \in Requests, elapsed \in Elapsed, send \in SendOutcomes :
           SkAgentProcessor(msg, elapsed, send)
    \/ \E msg \in BadBodies \cup {[kind |-> "object", config |-> EmptyDict]},
          api \in ApiOutcomes : AgentCreationProcessor(msg, api)
    \/ \E msg \in BadBodies \cup {[kind |-> "object", config |-> EmptyDict]},
          api \in ApiOutcomes : CreateAgent(msg, api)
    \/ StorageEnvChange

SpecSk == Init /\ [][NextSk]_vars

\* Concurrent callers of get_secret against a store whose values are fixed.
NextSecrets ==
    \/ \E t \in Threads,
          name \in {KV_FOUNDRY_PROJECT_ENDPOINT, KV_MCP_CONNECTION_ID},
          use_cache \in BOOLEAN : BeginGetSecret(t, name, use_cache)
    \/ \E t \in Threads : CheckSecret(t)
    \/ \E t \in Threads : ReadSecret(t)
    \/ \E t \in Threads : LookupSecret(t)
    \/ \E t \in Threads : StoreSecret(t)
    \/ \E t \in Threads : ReturnToCaller(t)

SpecSecrets == Init /\ [][NextSecrets]_vars

\* Concurrent callers of get_settings against a store whose values are
\* fixed.
NextSettings ==
    \/ \E t \in Threads : BeginGetSettings(t)
    \/ \E t \in Threads : CheckSecret(t)
    \/ \E t \in Threads : ReadSecret(t)
    \/ \E t \in Threads : LookupSecret(t)
    \/ \E t \in Threads : StoreSecret(t)
    \/ \E t \in Threads : ConstructSettings(t)
    \/ \E t \in Threads : StoreSettings(t)
    \/ \E t \in Threads : ReturnToCaller(t)

SpecSettings == Init /\ [][NextSettings]_vars

\* One run of deploy-function.py, every command of which may fail.
NextDeployFunction ==
    \/ \E args \in DeployFunctionArgs : RunDeployFunction(args)
    \/ \E outcome \in CommandOutcomes : InferResourceGroup(outcome)
    \/ \E outcome \in CommandOutcomes, found \in BOOLEAN :
           ListAppSettings(outcome, found)
    \/ \E outcome \in CommandOutcomes : EnableStorageAccess(outcome)
    \/ \E outcome \in CommandOutcomes : EnableAppAccess(outcome)
    \/ \E outcome \in CommandOutcomes : GetConnectionString(outcome)
    \/ \E outcome \in CommandOutcomes : SetConnectionSetting(outcome)
    \/ \E outcome \in PublishOutcomes : PublishFunctionApp(outcome)
    \/ \E outcome \in CommandOutcomes : DeleteConnectionSetting(outcome)
    \/ \E outcome \in CommandOutcomes : DisableStorageAccess(outcome)
    \/ \E outcome \in CommandOutcomes : DisableAppAccess(outcome)
    \/ DeployFunctionExit

SpecDeployFunction == Init /\ [][NextDeployFunction]_vars

\* Credential selection in a process whose environment changes and whose
\* secret store has outages.
NextCredential ==
    \/ BuildCredentialCall
    \/ GetSettingsCall
    \/ ClearCacheCall
    \/ EnvChange
    \/ VaultRotate
    \/ \E down \in Outages : VaultOutage(down)

SpecCredential == Init /\ [][NextCredential]_vars

\* One run of scripts/deploy.py, every command of which may fail and every
\* question of which may get any answer.
NextDeploy ==
    \/ \E args \in DeployArgs : RunDeploy(args)
    \/ \E outcome \in DeployOutcomes : CheckAzureCli(outcome)
    \/ \E outcome \in DeployOutcomes : CheckLogin(outcome)
    \/ \E outcome \in DeployOutcomes : AzLogin(outcome)
    \/ \E outcome \in DeployOutcomes : SubscriptionName(outcome)
    \/ \E outcome \in DeployOutcomes : SubscriptionId(outcome)
    \/ \E outcome \in DeployOutcomes : PreviousAppName(outcome)
    \/ \E outcome \in DeployOutcomes : PreviousGroupName(outcome)
    \/ \E answer \in Answers : ConfirmDeployment(answer)
    \/ \E outcome \in DeployOutcomes : DeployInfrastructure(outcome)
    \/ \E outcome \in DeployOutcomes : QueryOutput(outcome)
    \/ \E answer \in Answers : ConfirmFunction(answer)
    \/ \E outcome \in DeployOutcomes : DeployFunctionCode(outcome)
    \/ DeployComplete

SpecDeploy == Init /\ [][NextDeploy]_vars

\* Clients polling one response queue concurrently.
NextClients ==
    \/ \E c \in Clients : SendQuery(c)
    \/ \E c \in Clients, elapsed \in Elapsed : Respond(c, elapsed)
    \/ \E body \in ForeignBodies : ForeignMessage(body)
    \/ \E c \in Clients, expired \in BOOLEAN : ReceiveMessages(c, expired)
    \/ \E c \in Clients : ScanMessage(c)
    \/ \E i \in 1..(MaxClients + MaxForeign) : VisibilityTimeout(i)

SpecClients == Init /\ [][NextClients]_vars

----------------------------------------------------------------------------
(* Properties of resolve_tools, under SpecResolve *)

Registered(name) == name \in DOMAIN TOOL_REGISTRY

\* The names of a list that the registry knows, in order.
RECURSIVE KnownNames(_)
KnownNames(names) ==
    IF names = <<>> THEN <<>>
    ELSE IF Registered(Head(names))
    THEN <<Head(names)>> \o KnownNames(Tail(names))
    ELSE KnownNames(Tail(names))

\* C1: for a list of registered names only (repetitions included),
\* resolve_tools returns a tools list as long as the input whose i-th element
\* is the tool definition the i-th name's builder produces.
C1_ToolsFollowInput ==
    (/\ last.op = "resolve_tools"
     /\ \A i \in 1..Len(last.names) : Registered(last.names[i]))
    => /\ last.raised = ""
       /\ Len(last.tools) = Len(last.names)
       /\ \A i \in 1..Len(last.names) :
              last.tools[i] =
                  CallBuilder(TOOL_REGISTRY[last.names[i]],
                              settings_cache[1]).tool_def

C1_Witness ==
    /\ last.op = "resolve_tools"
    /\ last.names = <<"ai_search", "microsoft_learn_mcp", "ai_search">>
    /\ Len(last.tools) = 3
    /\ last.tools[1] = last.tools[3]
    /\ last.tools[2].type = "remote_mcp"

\* C2: an unregistered name raises nothing, and the result (tools and
\* tool_resources) is the result for the same list without the unregistered
\* names.
C2_UnknownNamesSkipped ==
    last.op = "resolve_tools"
    => /\ last.raised = ""
       /\ \E f \in {resolve_tools(KnownNames(last.names), settings_cache,
                                  secret_cache, vault, environ, allocated)} :
              /\ f.raised = ""
              /\ last.tools = f.tools
              /\ last.tool_resources = f.tool_resources

C2_Witness ==
    /\ last.op = "resolve_tools"
    /\ last.names = <<"unknown_tool", "ai_search", "unknown_tool">>
    /\ last.raised = ""
    /\ last.skipped = <<"unknown_tool", "unknown_tool">>
    /\ Len(last.tools) = 1

\* The index binding _build_ai_search declares for a snapshot.
IndexBinding(settings) ==
    [index_connection_id |-> settings.ai_search_connection_id,
     index_name |-> settings.ai_search_index_name]

SyntheticLists == {<<>>, <<1>>, <<2>>, <<2, 1>>}

\* C3: entries declaring the same top-level key are merged into one key
\* whose sub-lists are the entries' sub-lists concatenated in input order,
\* nothing dropped or duplicated: ai_search requested c >= 1 times yields the
\* single key azure_ai_search with c index bindings, and {"x": {"items": a}}
\* merged with {"x": {"items": b}} is {"x": {"items": a + b}}.
C3_SameKeyConcatenated ==
    /\ (last.op = "resolve_tools" /\ last.raised = ""
        /\ Count(last.names, "ai_search") >= 1)
       => /\ DOMAIN last.tool_resources = {"azure_ai_search"}
          /\ DOMAIN last.tool_resources["azure_ai_search"] = {"indexes"}
          /\ last.tool_resources["azure_ai_search"]["indexes"] =
                 [i \in 1..Count(last.names, "ai_search") |->
                     IndexBinding(settings_cache[1])]
    /\ last.op = "resolve_tools"
       => \A a \in SyntheticLists, b \in SyntheticLists :
              /\ MergeResources([x |-> [items |-> a]], [x |-> [items |-> b]])
                     = [x |-> [items |-> a \o b]]
              /\ MergeResources([x |-> [items |-> a], y |-> [more |-> b]],
                                [x |-> [other |-> b]])
                     = [x |-> [items |-> a, other |-> b],
                        y |-> [more |-> b]]

C3_Witness ==
    /\ last.op = "resolve_tools"
    /\ last.raised = ""
    /\ last.names = <<"ai_search", "code_interpreter", "ai_search">>
    /\ Len(last.tool_resources["azure_ai_search"]["indexes"]) = 2
    /\ MergeResources([x |-> [items |-> <<1>>]], [x |-> [items |-> <<2>>]])
           = [x |-> [items |-> <<1, 2>>]]

----------------------------------------------------------------------------
(* Properties of the settings snapshot and the secret cache *)

\* C4: every get_settings call that returns after the first successful one
\* returns the very object the first one returned, whatever get_secret and
\* clear_cache calls come in between.
C4_SameInstance ==
    (last.op = "get_settings" /\ last.raised = "")
    => /\ first_settings # NoInstance
       /\ last.instance[1].oid = first_settings[1].oid
       /\ last.instance = first_settings
       /\ settings_cache = first_settings

C4_Witness ==
    /\ last.op = "get_settings"
    /\ last.raised = ""
    /\ last.queried = <<>>
    /\ secret_cache = EmptyDict
    /\ vault.down = "all"
    /\ last.instance[1].oid = 1

\* The field values of a Settings instance.
FieldValues(s) == [s EXCEPT !.oid = 0]

\* C5 (under SpecDrift): once a snapshot has been constructed, the values
\* get_settings returns stay those of the first snapshot, through
\* clear_cache, get_secret(use_cache=False), rotated secrets and a changed
\* AZURE_CLIENT_ID.
C5_ValuesFrozen ==
    /\ (last.op = "get_settings" /\ first_settings # NoInstance)
       => /\ last.raised = ""
          /\ FieldValues(last.instance[1]) = FieldValues(first_settings[1])
    /\ first_settings # NoInstance
       => /\ settings_cache # NoInstance
          /\ FieldValues(settings_cache[1]) = FieldValues(first_settings[1])

C5_Witness ==
    /\ last.op = "get_settings"
    /\ last.instance = first_settings
    /\ first_settings[1].ai_search_index_name
           = <<KV_AI_SEARCH_INDEX_NAME, "v0">>
    /\ first_settings[1].azure_client_id = "client-1"
    /\ vault.rev = "v1"
    /\ environ.AZURE_CLIENT_ID = ""
    /\ DOMAIN secret_cache = {KV_AI_SEARCH_INDEX_NAME}
    /\ secret_cache[KV_AI_SEARCH_INDEX_NAME]
           = <<KV_AI_SEARCH_INDEX_NAME, "v1">>

\* C6: after clear_cache, while every get_secret call uses use_cache=True
\* and the store serves every lookup, the store has been queried exactly
\* once for each name requested and never for another; a call for a name
\* already cached returns the cached value without a lookup.
C6_OneLookupPerName ==
    /\ epoch.open
       => \A n \in SecretNames :
              epoch.queries[n] = IF n \in epoch.requested THEN 1 ELSE 0
    /\ (last.op = "get_secret" /\ last.use_cache /\ last.cached_before)
       => /\ last.queried = <<>>
          /\ last.raised = ""
          /\ last.value = secret_cache[last.name]

C6_Witness ==
    /\ epoch.open
    /\ epoch.requested = SecretNames
    /\ last.op = "get_secret"
    /\ last.use_cache
    /\ last.cached_before
    /\ last.queried = <<>>
    /\ settings_cache = NoInstance

\* The calls that reach the secret store.
StoreCallers == {"get_secret", "get_settings", "resolve_tools"}

\* C7: when a lookup fails in the store, the caller of get_secret,
\* get_settings or resolve_tools gets that very failure: the failing name
\* was looked up once, no value is returned in its place, no snapshot is
\* built, and the cache entry of that name is as it was before the call.
C7_StoreFailurePropagates ==
    [][(last'.op \in StoreCallers /\ last'.store_error # "")
       => \E n \in {last'.queried[Len(last'.queried)]} :
              /\ last'.raised = last'.store_error
              /\ last'.raised = VaultGet(vault, n).raised
              /\ Count(last'.queried, n) = 1
              /\ (n \in DOMAIN secret_cache') = (n \in DOMAIN secret_cache)
              /\ n \in DOMAIN secret_cache
                 => secret_cache'[n] = secret_cache[n]
              /\ settings_cache' = settings_cache
              /\ last'.op = "get_settings" => last'.instance = NoInstance
              /\ last'.op = "resolve_tools" => last'.tools = <<>>
      ]_vars

C7_Witness ==
    /\ last.op = "resolve_tools"
    /\ last.raised = "ResourceNotFoundError"
    /\ vault.down = KV_AI_SEARCH_INDEX_NAME
    /\ last.queried = <<KV_FOUNDRY_PROJECT_ENDPOINT,
                        KV_AI_SEARCH_CONNECTION_ID, KV_AI_SEARCH_INDEX_NAME>>
    /\ DOMAIN secret_cache =
           {KV_FOUNDRY_PROJECT_ENDPOINT, KV_AI_SEARCH_CONNECTION_ID}
    /\ settings_cache = NoInstance

\* The secrets Settings() has to look up remotely: those not in the cache.
Uncached(cache) ==
    SelectSeq(SettingsSecrets, LAMBDA n : n \notin DOMAIN cache)

\* The names of a list up to and including the first one the store fails on.
RECURSIVE UpToFailure(_, _)
UpToFailure(names, v) ==
    IF names = <<>> THEN <<>>
    ELSE IF VaultGet(v, Head(names)).raised # "" THEN <<Head(names)>>
    ELSE <<Head(names)>> \o UpToFailure(Tail(names), v)

\* C26 (under SpecRetry): a failed Settings construction is not cached: a
\* get_settings call made while no snapshot is cached constructs again,
\* looks up in the store only the secret names that are not in the secret
\* cache (the names fetched before a failure stay cached), and succeeds when
\* the store can serve every one of them.
C26_FailedConstructionRetried ==
    [][(last'.op = "get_settings" /\ settings_cache = NoInstance)
       => /\ last'.queried = UpToFailure(Uncached(secret_cache), vault)
          /\ \A n \in DOMAIN secret_cache :
                 /\ n \in DOMAIN secret_cache'
                 /\ secret_cache'[n] = secret_cache[n]
          /\ \A n \in Range(last'.queried) :
                 VaultGet(vault, n).raised = ""
                 => /\ n \in DOMAIN secret_cache'
                    /\ secret_cache'[n] = VaultGet(vault, n).value
          /\ last'.raised # "" => settings_cache' = NoInstance
          /\ (\A n \in Range(Uncached(secret_cache)) :
                  VaultGet(vault, n).raised = "")
             => /\ last'.raised = ""
                /\ settings_cache' # NoInstance
                /\ settings_cache' = last'.instance
                /\ DOMAIN secret_cache' = Range(SettingsSecrets)
      ]_vars

C26_Witness ==
    /\ last.op = "get_settings"
    /\ last.raised = ""
    /\ last.queried = <<KV_AI_SEARCH_INDEX_NAME, KV_MCP_CONNECTION_ID>>
    /\ settings_cache # NoInstance
    /\ allocated = 1

\* The calls that start with resolve_tools: resolve_tools itself and the
\* handlers on a message they could parse.
ResolvesTools(l) ==
    \/ l.op = "resolve_tools"
    \/ /\ l.op \in {"agent_creation_processor", "create_agent"}
       /\ l.msg.kind = "object"

\* What a call left behind when it failed with the store's failure before
\* any tool was built and any agent created.
FailedOnStore(l) ==
    /\ l.store_error # ""
    /\ l.raised = l.store_error
    /\ l.op = "resolve_tools" => l.tools = <<>>
    /\ l.op # "resolve_tools" => l.calls = <<>>

\* C27 as stated (under SpecUnavailable): on a process whose settings are
\* not cached resolve_tools fails with the secret-store failure whenever one
\* of the four secrets is unavailable in the store, for every input list,
\* and a handler then makes no create-agent call.
C27_FailsWhenStoreLacksSecret ==
    [][(/\ ResolvesTools(last')
        /\ settings_cache = NoInstance
        /\ \E n \in SecretNames : VaultGet(vault, n).raised # "")
       => FailedOnStore(last')
      ]_vars

\* C27 amended (under SpecUnavailable): on a process whose settings are not
\* cached resolve_tools fails with the secret-store failure whenever one of
\* the four secrets is neither in the secret cache nor available in the
\* store, for every input list, the empty one and code_interpreter alone
\* included, and a handler then makes no create-agent call; a secret the
\* cache holds is not looked up, so its absence from the store goes
\* unnoticed.
C27_FailsWhenSecretUnobtainable ==
    [][(ResolvesTools(last') /\ settings_cache = NoInstance)
       => IF \E n \in SecretNames :
                 /\ n \notin DOMAIN secret_cache
                 /\ VaultGet(vault, n).raised # ""
          THEN /\ FailedOnStore(last')
               /\ settings_cache' = NoInstance
          ELSE /\ last'.store_error = ""
               /\ settings_cache' # NoInstance
      ]_vars

C27_Witness ==
    /\ last.op = "create_agent"
    /\ last.msg.kind = "object"
    /\ DictGet(last.msg.config, "tools", <<>>) = <<>>
    /\ last.raised = "ResourceNotFoundError"
    /\ vault.down = KV_MCP_CONNECTION_ID
    /\ last.calls = <<>>
    /\ last.queried = <<KV_AI_SEARCH_INDEX_NAME, KV_MCP_CONNECTION_ID>>
    /\ settings_cache = NoInstance

----------------------------------------------------------------------------
(* Properties of the agent-creation handlers, under SpecHandlers *)


\* The message of C8: agent_name "doc-bot", tools ["ai_search",
\* "unknown_tool"], neither model nor instructions.
IsDocBotMessage(msg) ==
    /\ msg.kind = "object"
    /\ "agent_name" \in DOMAIN msg.config
    /\ msg.config["agent_name"] = "doc-bot"
    /\ "tools" \in DOMAIN msg.config
    /\ msg.config["tools"] = <<"ai_search", "unknown_tool">>
    /\ "model" \notin DOMAIN msg.config
    /\ "instructions" \notin DOMAIN msg.config

\* C8: whenever the settings could be loaded, either handler makes one
\* create-agent call for a JSON-object message, and the tools and
\* tool_resources of that call are what resolve_tools returns for the
\* message's tools list; for the doc-bot message the tools are the single
\* ai_search definition, the instructions the "doc-bot" prompt and the model
\* "gpt-4.1".
C8_DocBotCall ==
    (last.op \in Handlers /\ last.msg.kind = "object"
     /\ last.store_error = "")
    => \E f \in {resolve_tools(DictGet(last.msg.config, "tools", <<>>),
                               settings_cache, secret_cache, vault, environ,
                               allocated)} :
           /\ Len(last.calls) = 1
           /\ f.raised = ""
           /\ last.calls[1].tools = f.tools
           /\ last.calls[1].tool_resources = f.tool_resources
           /\ IsDocBotMessage(last.msg)
              => /\ last.calls[1].tools = <<[type |-> "azure_ai_search"]>>
                 /\ last.calls[1].instructions = AGENT_PROMPTS["doc-bot"]
                 /\ last.calls[1].instructions # AGENT_PROMPTS["default"]
                 /\ last.calls[1].model = "gpt-4.1"
                 /\ last.calls[1].name = "doc-bot"

C8_Witness ==
    /\ last.op = "create_agent"
    /\ IsDocBotMessage(last.msg)
    /\ last.raised = ""
    /\ Len(last.calls) = 1
    /\ Len(last.calls[1].tools) = 1
    /\ DOMAIN last.calls[1].tool_resources = {"azure_ai_search"}
    /\ last.queried = <<>>
    /\ vault.down = "all"

\* C9: for the message {} (empty JSON object), when the settings can be
\* loaded and the create-agent operation succeeds, either handler returns
\* without raising after exactly one create-agent call with name
\* "default-agent", model "gpt-4.1", the "default" prompt, no tools and an
\* empty tool_resources mapping.
C9_EmptyObjectDefaults ==
    (last.op \in Handlers /\ last.msg.kind = "object"
     /\ DOMAIN last.msg.config = {}
     /\ last.store_error = "" /\ last.api = "")
    => /\ last.raised = ""
       /\ last.calls =
              <<[model |-> "gpt-4.1", name |-> "default-agent",
                 instructions |-> AGENT_PROMPTS["default"],
                 tools |-> <<>>, tool_resources |-> EmptyDict]>>
       /\ last.trace = <<"parse", "resolve_tools", "get_project_client",
                         "create_agent">>
       /\ project_client # <<>>

C9_Witness ==
    /\ last.op = "create_agent"
    /\ last.msg.kind = "object"
    /\ DOMAIN last.msg.config = {}
    /\ last.raised = ""
    /\ Len(last.calls) = 1
    /\ last.calls[1].name = "default-agent"
    /\ last.queried = <<KV_FOUNDRY_PROJECT_ENDPOINT,
                        KV_AI_SEARCH_CONNECTION_ID, KV_AI_SEARCH_INDEX_NAME,
                        KV_MCP_CONNECTION_ID>>

\* The agent name C10 prescribes: agent_name, else agentName, else the
\* default.
ClaimedAgentName(config) ==
    IF "agent_name" \in DOMAIN config THEN config["agent_name"]
    ELSE IF "agentName" \in DOMAIN config THEN config["agentName"]
    ELSE "default-agent"

\* C10: every agent-creation handler names the agent after the agent_name
\* field when present, otherwise after the legacy agentName field when
\* present, otherwise "default-agent", and looks up the prompt under that
\* name (stated for messages whose agent_name, when present, is not empty).
C10_LegacyNameHonoured ==
    (/\ last.op \in Handlers
     /\ last.msg.kind = "object"
     /\ Len(last.calls) = 1
     /\ "agent_name" \in DOMAIN last.msg.config
        => last.msg.config["agent_name"] # "")
    => /\ last.calls[1].name = ClaimedAgentName(last.msg.config)
       /\ "instructions" \notin DOMAIN last.msg.config
          => last.calls[1].instructions =
                 get_prompt(ClaimedAgentName(last.msg.config))

\* The instructions and the model C11 prescribes for a create-agent call,
\* with the instructions field counted as given when Given(config) holds.
FollowsMessage(call, config, given) ==
    /\ call.instructions =
           IF given THEN config["instructions"] ELSE get_prompt(call.name)
    /\ (~given /\ call.name \notin DOMAIN AGENT_PROMPTS)
       => call.instructions = AGENT_PROMPTS["default"]
    /\ call.model =
           IF "model" \in DOMAIN config THEN config["model"] ELSE "gpt-4.1"

\* C11 as stated: the instructions passed are the message's instructions
\* field whenever the field is present, otherwise the prompt-table entry of
\* the agent name (the "default" prompt for a name outside the table); the
\* model is the message's model field when present and "gpt-4.1" otherwise.
C11_InstructionsWhenPresent ==
    (last.op \in Handlers /\ last.msg.kind = "object" /\ Len(last.calls) = 1)
    => FollowsMessage(last.calls[1], last.msg.config,
                      "instructions" \in DOMAIN last.msg.config)

\* C11 amended: the instructions field is used when it is present and not
\* empty; an empty instructions string falls back to the prompt table like an
\* absent one. The rest as stated.
C11_InstructionsWhenNonEmpty ==
    (last.op \in Handlers /\ last.msg.kind = "object" /\ Len(last.calls) = 1)
    => FollowsMessage(last.calls[1], last.msg.config,
                      /\ "instructions" \in DOMAIN last.msg.config
                      /\ last.msg.config["instructions"] # "")

C11_Witness ==
    /\ last.op = "agent_creation_processor"
    /\ last.msg.kind = "object"
    /\ "instructions" \in DOMAIN last.msg.config
    /\ last.msg.config["instructions"] = ""
    /\ "agent_name" \in DOMAIN last.msg.config
    /\ last.msg.config["agent_name"] = "doc-bot"
    /\ "model" \in DOMAIN last.msg.config
    /\ Len(last.calls) = 1
    /\ last.calls[1].instructions = AGENT_PROMPTS["doc-bot"]
    /\ last.calls[1].model = "gpt-4o"

----------------------------------------------------------------------------
(* Properties of the three queue handlers, under SpecSk *)

QueueHandlers ==
    {"agent_creation_processor", "create_agent", "sk_agent_processor"}

\* C12: for a body that is not valid JSON, agent_creation_processor and
\* sk_agent_processor end by raising the decode failure and create_agent
\* returns normally; no handler invokes create-agent, resolves a tool (no
\* settings or secret is read, no client built) or sends a response.
C12_MalformedBody ==
    [][(last'.op \in QueueHandlers /\ last'.msg.kind = "malformed")
       => /\ last'.raised = IF last'.op = "create_agent" THEN ""
                            ELSE "JSONDecodeError"
          /\ last'.calls = <<>>
          /\ last'.sent = <<>>
          /\ last'.trace = <<"parse">>
          /\ last'.queried = <<>>
          /\ response_queue' = response_queue
          /\ settings_cache' = settings_cache
          /\ secret_cache' = secret_cache
          /\ project_client' = project_client
      ]_vars

C12_Witness ==
    /\ last.op = "create_agent"
    /\ last.msg.kind = "malformed"
    /\ last.raised = ""
    /\ last.calls = <<>>
    /\ settings_cache = NoInstance
    /\ Len(response_queue) = 1

\* A valid-JSON request that lacks requestId or lacks query.
LacksRequiredField(msg) ==
    /\ msg.kind # "malformed"
    /\ \/ msg.kind # "object"
       \/ "requestId" \notin DOMAIN msg.config
       \/ "query" \notin DOMAIN msg.config

\* C13: for every valid-JSON request that lacks requestId or lacks query,
\* sk_agent_processor raises the validation failure (ValueError) out of the
\* handler and sends nothing to the response queue.
C13_MissingFieldsRejected ==
    (last.op = "sk_agent_processor" /\ LacksRequiredField(last.msg))
    => /\ last.raised = "ValueError"
       /\ last.sent = <<>>

\* A JSON-object request carrying requestId and query.
IsCompleteRequest(msg) ==
    /\ msg.kind = "object"
    /\ "requestId" \in DOMAIN msg.config
    /\ "query" \in DOMAIN msg.config

\* C14: a successful sk_agent_processor invocation for a request carrying
\* requestId and query adds exactly one message to the response queue; its
\* requestId and query are the request's, its metadata.requester is the
\* request's requester ("unknown" when the request has none), and it carries
\* answer, metadata.processingTime and metadata.pluginsUsed.
C14_OneResponsePerRequest ==
    [][(/\ last'.op = "sk_agent_processor"
        /\ IsCompleteRequest(last'.msg)
        /\ last'.raised = "")
       => /\ Len(last'.sent) = 1
          /\ response_queue' = Append(response_queue, last'.sent[1])
          /\ \E m \in {last'.sent[1].json} :
                 /\ DOMAIN m = {"requestId", "query", "answer", "metadata"}
                 /\ DOMAIN m.metadata =
                        {"processingTime", "pluginsUsed", "requester"}
                 /\ m.requestId = last'.msg.config["requestId"]
                 /\ m.query = last'.msg.config["query"]
                 /\ m.metadata.requester =
                        IF "requester" \in DOMAIN last'.msg.config
                        THEN last'.msg.config["requester"] ELSE "unknown"
                 /\ m.metadata.processingTime = last'.elapsed
      ]_vars

C14_Witness ==
    /\ last.op = "sk_agent_processor"
    /\ IsCompleteRequest(last.msg)
    /\ "requester" \notin DOMAIN last.msg.config
    /\ last.raised = ""
    /\ response_queue = last.sent
    /\ Len(response_queue) = 1
    /\ response_queue[1].json.metadata.requester = "unknown"
    /\ response_queue[1].account_url[3] = "acct2"

----------------------------------------------------------------------------
(* Failure of the create-agent operation, under SpecHandlers *)

\* C15: when the create-agent call fails, the handler invocation ends by
\* raising that failure; in every invocation create-agent is invoked at most
\* once.
C15_ApiFailurePropagates ==
    last.op \in Handlers
    => /\ Len(last.calls) <= 1
       /\ (last.calls # <<>> /\ last.api # "")
          => /\ last.raised = last.api
             /\ last.trace[Len(last.trace)] = "create_agent"
       /\ (last.calls # <<>> /\ last.api = "") => last.raised = ""

C15_Witness ==
    /\ last.op = "create_agent"
    /\ last.api = "HttpResponseError"
    /\ last.raised = "HttpResponseError"
    /\ Len(last.calls) = 1
    /\ project_client # <<>>

----------------------------------------------------------------------------
(* Concurrent callers *)

\* The value the store holds for a name.
StoreValue(name) == VaultGet(vault, name).value

\* C16 (under SpecSecrets): whatever the interleaving of concurrent
\* get_secret calls against a store with fixed values, every call returns the
\* store's value for its name, the cache never holds another value for a
\* name, and once all calls have finished every fetched name is cached with
\* that value.
C16_ConcurrentFetchesAgree ==
    /\ \A r \in returned :
           r.op = "get_secret" => r.value = StoreValue(r.name)
    /\ \A n \in DOMAIN secret_cache : secret_cache[n] = StoreValue(n)
    /\ (\A t \in Threads : threads[t].pc = "idle")
       => \A r \in returned :
              /\ r.name \in DOMAIN secret_cache
              /\ secret_cache[r.name] = r.value

\* Two callers have both looked up the same name and are about to write it.
C16_Witness ==
    /\ threads[1].pc = "write"
    /\ threads[2].pc = "write"
    /\ threads[1].name = threads[2].name
    /\ threads[1].use_cache
    /\ threads[2].use_cache
    /\ \E r \in returned : r.name # threads[1].name

\* The get_settings calls that have returned.
SettingsReturns == {r \in returned : r.op = "get_settings"}

C28_NonObjectBodyRaises ==
    last.op \in Handlers
    => /\ last.msg \in NonObjectBodies
          => /\ last.raised = "AttributeError"
             /\ last.calls = <<>>
             /\ last.trace = <<"parse">>
       /\ (last.op = "create_agent" /\ last.msg.kind = "malformed")
          => last.raised = "" /\ last.calls = <<>>

C28_Witness ==
    /\ last.op = "create_agent"
    /\ last.msg.kind = "null"
    /\ last.raised = "AttributeError"
    /\ last.calls = <<>>
    /\ project_client = <<>>

\* The pair resolve_tools returns for a list and a snapshot, as a value.
ExpectedPair(names, settings) ==
    The({<<acc.tools, acc.tool_resources>> :
            acc \in {ResolveLoop(names, settings,
                         [tools |-> <<>>, tool_resources |-> EmptyDict,
                          skipped |-> <<>>, warnings |-> 0])}})

\* The objects of the i-th result.
ObjectsOf(i) ==
    Reach(heap, results[i].tools) \cup Reach(heap, results[i].tool_resources)

\* C29 (under SpecIsolation): resolve_tools calls are isolated from one
\* another: with the Settings snapshot fixed, each call returned the pair its
\* input list determines whatever calls and caller mutations came before it;
\* a result its caller has not changed still reads as it was returned; no
\* object of a result belongs to another result or is the registry, and the
\* registry and the Settings snapshot are as they were.
C29_CallsIsolated ==
    /\ heap[1] = RegistryObject
    /\ \A i \in 1..Len(results) :
           /\ settings_cache = results[i].settings
           /\ results[i].value =
                  ExpectedPair(results[i].names, settings_cache[1])
           /\ results[i].mutations = 0
              => <<Value(heap, results[i].tools),
                   Value(heap, results[i].tool_resources)>>
                     = results[i].value
           /\ 1 \notin ObjectsOf(i)
           /\ \A j \in 1..Len(results) :
                  i # j => ObjectsOf(i) \cap ObjectsOf(j) = {}

C29_Witness ==
    /\ Len(results) = 2
    /\ results[1].names = <<"ai_search", "ai_search">>
    /\ results[2].names = <<"ai_search", "ai_search">>
    /\ results[1].mutations = 1
    /\ results[2].mutations = 0
    /\ <<Value(heap, results[1].tools),
         Value(heap, results[1].tool_resources)>> # results[1].value
    /\ results[2].value = results[1].value

\* Whether s is an initial segment of q.
IsPrefix(s, q) == Len(s) <= Len(q) /\ \A i \in 1..Len(s) : s[i] = q[i]

\* The invocations of the agent-creation handlers, begun or ended.
Invocations == {t \in Threads : threads[t].op \in Handlers}

\* What the handler of invocation t does with its message when it runs
\* alone on the Settings snapshot the process holds.
Alone(t) ==
    IF threads[t].op = "create_agent"
    THEN create_agent(threads[t].msg, ProcessState, vault, environ,
                      threads[t].api)
    ELSE agent_creation_processor(threads[t].msg, ProcessState, vault,
                                  environ, threads[t].api)

\* C30 (under SpecConcurrent): in every agent-creation handler invocation
\* the steps occur in the order parse, resolve_tools, get_project_client,
\* create_agent; create_agent is invoked only when the body parsed to an
\* object and resolve_tools returned; and with invocations for different
\* messages interleaved, each create_agent call is the one the handler makes
\* for its own message alone on the shared Settings snapshot.
C30_OrderedAndIsolated ==
    \A t \in Invocations :
        /\ IsPrefix(threads[t].trace, FullTrace)
        /\ threads[t].pc = "create" \/ threads[t].calls # <<>>
           => /\ threads[t].msg.kind = "object"
              /\ threads[t].resolved
              /\ IsPrefix(SubSeq(FullTrace, 1, 3), threads[t].trace)
        /\ threads[t].calls # <<>>
           => /\ threads[t].trace = FullTrace
              /\ settings_cache # NoInstance
              /\ threads[t].calls = Alone(t).calls

C30_Witness ==
    \E t, u \in Invocations :
        /\ threads[t].calls # <<>>
        /\ threads[u].calls # <<>>
        /\ threads[t].msg # threads[u].msg
        /\ threads[t].calls # threads[u].calls
        /\ threads[u].overlap

----------------------------------------------------------------------------
(* The deployment scripts *)

\* The commands by which deploy-function.py opens the deployment window.
OpeningCommands == {"enable_storage", "enable_app", "set_app_setting"}

\* C18 (under SpecDeployFunction): on every run in which the script enabled
\* public network access on the storage account or the function app, or set
\* the AzureWebJobsStorage setting, when the script has terminated the
\* setting is deleted and public access is Disabled on both resources,
\* whatever command failed.
C18_AccessWindowClosed ==
    (/\ script.name = "deploy-function"
     /\ script.pc = "exited"
     /\ Range(script.done) \cap OpeningCommands # {})
    => /\ ~cloud.conn_setting
       /\ ~cloud.storage_public
       /\ ~cloud.app_public

\* The cleanup of deploy-function.py, in the order of the source.
CleanupCommands ==
    <<"delete_app_setting", "disable_storage", "disable_app">>

\* The cleanup commands among the commands tried, in the order tried.
TriedCleanup == SelectSeq(script.tried,
                          LAMBDA c : c \in Range(CleanupCommands))

C19_YesSkipsPrompts ==
    (script.name = "deploy" /\ script.args.yes) => script.prompts = <<>>

\* C24 (under SpecDeploy): whenever scripts/deploy.py is run with
\* --infra-only the function-code publish command is never executed during
\* the run, whatever the other flags (--func-only, --name, --yes).
C24_InfraOnlyNeverPublishes ==
    (script.name = "deploy" /\ script.args.infra_only)
    => /\ script.pc # "publish"
       /\ "publish" \notin Range(script.done)
       /\ ~cloud.published

----------------------------------------------------------------------------
(* utils/foundry_client.py *)

\* C20 (under SpecCredential): _build_credential selects
\* ManagedIdentityCredential whenever AZURE_CLIENT_ID is set (non-empty) in
\* the environment at the time of the call and DefaultAzureCredential
\* whenever it is not, in every process state, also after get_settings has
\* cached a snapshot taken under another AZURE_CLIENT_ID.
C20_CredentialFollowsEnvironment ==
    (last.op = "_build_credential" /\ last.raised = "")
    => last.credential[1].type =
           IF environ.AZURE_CLIENT_ID # ""
           THEN "ManagedIdentityCredential"
           ELSE "DefaultAzureCredential"

----------------------------------------------------------------------------
(* Further properties of resolve_tools *)

\* The top-level keys the builders of the registered names of a list declare.
DeclaredKeys(names, settings) ==
    UNION {DOMAIN CallBuilder(TOOL_REGISTRY[names[i]],
                              settings).tool_resources :
              i \in {j \in 1..Len(names) : Registered(names[j])}}

\* C21 (under SpecResolve): the tool_resources mapping resolve_tools returns
\* has a top-level key exactly when a registered input name's builder
\* declares it; it is the empty mapping for the empty list, for lists of
\* unknown names only and for lists naming only code_interpreter and
\* microsoft_learn_mcp; the result is a (list, mapping) pair.
C21_ResourceKeysDeclared ==
    last.op = "resolve_tools"
    => /\ last.raised = ""
       /\ DOMAIN last.tools = 1..Len(last.tools)
       /\ DOMAIN last.tool_resources =
              DeclaredKeys(last.names, settings_cache[1])
       /\ DOMAIN last.tool_resources \subseteq {"azure_ai_search"}
       /\ ("azure_ai_search" \in DOMAIN last.tool_resources)
              <=> ("ai_search" \in Range(last.names))
       /\ Range(last.names) \subseteq
              {"code_interpreter", "microsoft_learn_mcp", "unknown_tool"}
          => last.tool_resources = EmptyDict

C21_Witness ==
    /\ last.op = "resolve_tools"
    /\ last.names = <<"unknown_tool", "code_interpreter", "ai_search">>
    /\ last.raised = ""
    /\ Len(last.tools) = 2
    /\ DOMAIN last.tool_resources = {"azure_ai_search"}

\* The tool definitions of the registered names of a list, in order.
ExpectedTools(names, settings) ==
    [i \in 1..Len(KnownNames(names)) |->
        CASE KnownNames(names)[i] = "ai_search" ->
                 [type |-> "azure_ai_search"]
          [] KnownNames(names)[i] = "microsoft_learn_mcp" ->
                 [type |-> "remote_mcp",
                  remote_mcp |->
                      [connection_id |-> settings.mcp_connection_id]]
          [] OTHER -> [type |-> "code_interpreter"]]

----------------------------------------------------------------------------
(* examples/sk_agent_request_response.py *)

\* C25 (under SpecClients): send_query returns only a response whose
\* requestId is the id generated for the call and deletes only that message;
\* with several clients polling the same queue no client returns or deletes
\* a response addressed to another request, and a call that does not return
\* ends with TimeoutError.
C25_OwnResponseOrTimeout ==
    \A c \in Clients :
        /\ clients[c].deleted \subseteq {<<"response", c>>}
        /\ clients[c].pc = "done"
           => \/ /\ clients[c].result.kind = "return"
                 /\ clients[c].result.response.json.requestId = Uuid4(c)
                 /\ clients[c].deleted = {<<"response", c>>}
              \/ /\ clients[c].result.kind = "raise"
                 /\ clients[c].result.error = "TimeoutError"
                 /\ clients[c].deleted = {}

====
